---- MODULE Spec2Model ----
(***************************************************************************)
(* Term extraction (run_extract_terms.py, pass 1) and refinement           *)
(* (run_microfix_outputs.py, pass 2) of the IR glossary tools.             *)
(*                                                                         *)
(* A Python str is modelled as a sequence of Unicode code points, so that  *)
(* lexical order, character classes and substring search are computed as   *)
(* Python computes them.  Indices of find/rfind/slices are 0-based as in   *)
(* the source.                                                             *)
(***************************************************************************)
EXTENDS Integers, Sequences, FiniteSets, TLC

----------------------------------------------------------------------------
(* Python built-ins used by the source *)

Min(S) == CHOOSE x \in S : \A y \in S : x <= y
Max(S) == CHOOSE x \in S : \A y \in S : x >= y

\* str.isspace / regex \s
WHITESPACE == {9, 10, 11, 12, 13, 28, 29, 30, 31, 32, 133, 160, 12288}

\* regex \d and str.isdigit on the characters of the model: ASCII and fullwidth digits
IsDigit(c) == c \in 48..57 \/ c \in 65296..65305

\* regex [A-Za-z0-9]
IsAsciiAlnum(c) == c \in 48..57 \/ c \in 65..90 \/ c \in 97..122

\* regex \w: letters (Latin, kana, prolonged sound mark, CJK ideographs), digits, underscore
IsWordChar(c) ==
    \/ IsDigit(c) \/ c \in 65..90 \/ c \in 97..122 \/ c = 95
    \/ c \in 12353..12438 \/ c \in 12449..12538 \/ c = 12540
    \/ c \in 19968..40959
    \/ c \in 65313..65338 \/ c \in 65345..65370

\* s[a:b] for 0 <= a, b (clamped to the length as Python does)
Slice(s, a, b) == SubSeq(s, a + 1, IF b > Len(s) THEN Len(s) ELSE b)

RECURSIVE LStrip(_, _)
LStrip(s, cs) == IF s # << >> /\ Head(s) \in cs THEN LStrip(Tail(s), cs) ELSE s

RECURSIVE RStrip(_, _)
RStrip(s, cs) ==
    IF s # << >> /\ s[Len(s)] \in cs THEN RStrip(SubSeq(s, 1, Len(s) - 1), cs) ELSE s

\* str.strip(chars)
StripChars(s, cs) == RStrip(LStrip(s, cs), cs)

\* str.strip()
strip(s) == StripChars(s, WHITESPACE)

\* s[i:i+len(sub)] == sub
MatchAt(s, sub, i) == i >= 0 /\ i + Len(sub) <= Len(s) /\ SubSeq(s, i + 1, i + Len(sub)) = sub

\* a negative slice bound counts from the end
PyIndex(s, i) == IF i < 0 THEN (IF i + Len(s) < 0 THEN 0 ELSE i + Len(s))
                 ELSE (IF i > Len(s) THEN Len(s) ELSE i)

\* str.find(sub, start)
find(s, sub, start) ==
    LET hits == {i \in PyIndex(s, start)..(Len(s) - Len(sub)) : MatchAt(s, sub, i)}
    IN  IF hits = {} THEN -1 ELSE Min(hits)

\* str.rfind(sub, start, end)
rfind(s, sub, start, end) ==
    LET hits == {i \in PyIndex(s, start)..(PyIndex(s, end) - Len(sub)) : MatchAt(s, sub, i)}
    IN  IF hits = {} THEN -1 ELSE Max(hits)

\* sub in s
In(sub, s) == find(s, sub, 0) # -1

\* every character of a non-empty s satisfies the class: re.fullmatch(r"[...]+", s)
AllIn(s, cs) == s # << >> /\ \A i \in 1..Len(s) : s[i] \in cs
AllDigits(s) == s # << >> /\ \A i \in 1..Len(s) : IsDigit(s[i])

\* str.lower() on the Latin letters
lower(s) == [i \in DOMAIN s |-> IF s[i] \in 65..90 THEN s[i] + 32 ELSE s[i]]

\* unicodedata.normalize("NFKC", .) on the characters of the model: fullwidth
\* ASCII forms fold to ASCII, the halfwidth middle dot to U+30FB, the
\* ideographic space to U+0020; every other character is unchanged.
_nfkc(text) ==
    [i \in DOMAIN text |->
        IF text[i] \in 65281..65374 THEN text[i] - 65248
        ELSE IF text[i] = 65381 THEN 12539
        ELSE IF text[i] = 12288 THEN 32
        ELSE text[i]]

\* "".join(parts)
RECURSIVE Concat(_)
Concat(parts) == IF parts = << >> THEN << >> ELSE Head(parts) \o Concat(Tail(parts))

\* [c] * n
Rep(c, n) == [i \in 1..n |-> c]

----------------------------------------------------------------------------
(* run_extract_terms.py: constants *)

MAX_TERMS_PER_COMPANY == 10000
MAX_TERM_CHARS == 40
MIN_TERM_CHARS == 2

STOPWORDS == {
    <<24403, 31038>>,
    <<26412, 26360>>,
    <<37325, 35201>>,
    <<20869, 23481>>,
    <<22580, 21512>>,
    <<20197, 19979>>,
    <<12394, 12362>>,
    <<12414, 12383>>,
    <<21450, 12403>>,
    <<20006, 12403, 12395>>,
    <<12381, 12398, 20182>>,
    <<21508>>,
    <<31561>> }

\* the characters of CONNECTORS and of the strip("・-－‐/／") calls
CONNECTORS == { 12539, 45, 65293, 8208, 47, 65295 }

\* ^\d+$
RE_ONLY_DIGITS(t) == AllDigits(t)

\* ^[\d,.\-–—ー]+$
RE_ONLY_NUM_PUNCT(t) ==
    t # << >> /\ \A i \in 1..Len(t) : IsDigit(t[i]) \/ t[i] \in {44, 46, 45, 8211, 8212, 12540}

\* ^[ぁ-ゖ]+$
RE_ONLY_HIRAGANA(t) == AllIn(t, 12353..12438)

\* \d{4} s1 \d{1,2} s2 \d{1,2} tail, matched against the whole of t
DateForm(t, s1, s2, tail) ==
    \E a \in 1..2, b \in 1..2 :
        /\ Len(t) = 4 + 1 + a + 1 + b + Len(tail)
        /\ AllDigits(SubSeq(t, 1, 4))
        /\ t[5] = s1
        /\ AllDigits(SubSeq(t, 6, 5 + a))
        /\ t[6 + a] = s2
        /\ AllDigits(SubSeq(t, 7 + a, 6 + a + b))
        /\ SubSeq(t, 7 + a + b, Len(t)) = tail

\* ^(?:\d{4}年\d{1,2}月\d{1,2}日|\d{4}/\d{1,2}/\d{1,2}|\d{4}-\d{1,2}-\d{1,2})$
RE_DATE_LIKE(t) ==
    \/ DateForm(t, 24180, 26376, <<26085>>)
    \/ DateForm(t, 47, 47, << >>)
    \/ DateForm(t, 45, 45, << >>)

\* ^(?:第?\d+(?:章|節|項|期)|\d+(?:章|節|項))$
RE_SECTION_LIKE(t) ==
    LET body == IF t # << >> /\ Head(t) = 31532 THEN Tail(t) ELSE t
    IN  \/ /\ Len(body) >= 2
           /\ AllDigits(SubSeq(body, 1, Len(body) - 1))
           /\ body[Len(body)] \in {31456, 31680, 38917, 26399}
        \/ /\ Len(t) >= 2
           /\ AllDigits(SubSeq(t, 1, Len(t) - 1))
           /\ t[Len(t)] \in {31456, 31680, 38917}

\* re.fullmatch(r"[\W_]+", term)
OnlyNonWord(t) == t # << >> /\ \A i \in 1..Len(t) : ~IsWordChar(t[i]) \/ t[i] = 95

_looks_bad(term0, company) ==
    LET term == strip(term0)
        company_nfkc == _nfkc(company)
    IN  \/ term0 = << >>
        \/ term = << >>
        \/ Len(term) < MIN_TERM_CHARS \/ Len(term) > MAX_TERM_CHARS
        \/ term \in STOPWORDS
        \/ RE_ONLY_DIGITS(term)
        \/ RE_ONLY_NUM_PUNCT(term)
        \/ RE_ONLY_HIRAGANA(term)
        \/ RE_DATE_LIKE(term)
        \/ RE_SECTION_LIKE(term)
        \/ In(<<104, 116, 116, 112>>, lower(term))
        \/ In(<<26666, 24335, 20250, 31038>>, term)
        \/ term = company_nfkc
        \/ company_nfkc # << >> /\ In(company_nfkc, term) /\ Len(term) <= Len(company_nfkc) + 4
        \/ OnlyNonWord(term)

----------------------------------------------------------------------------
(* run_extract_terms.py: _extract_context *)

\* the value None (no code point is negative, so it is no string)
None == <<-1>>

FULL_STOP == 12290      \* "。"
ELLIPSIS == 8230        \* "…"

\* re.sub(r"\s+", " ", s): every maximal run of white space becomes one space
RECURSIVE CollapseWs(_)
CollapseWs(s) ==
    LET ws == {i \in 1..Len(s) : s[i] \in WHITESPACE}
    IN  IF ws = {} THEN s
        ELSE SubSeq(s, 1, Min(ws) - 1) \o <<32>>
             \o CollapseWs(LStrip(SubSeq(s, Min(ws), Len(s)), WHITESPACE))

\* lines 275-283: the 80/140 window around the first match, whitespace collapsed
ContextWindow(text, term) ==
    LET idx == find(text, term, 0)
        left == IF idx - 80 < 0 THEN 0 ELSE idx - 80
        right == IF idx + Len(term) + 140 > Len(text) THEN Len(text)
                 ELSE idx + Len(term) + 140
    IN  strip(CollapseWs(Slice(text, left, right)))

\* lines 287-293: both indices are taken in the untrimmed window; the cut at
\* `after` is then applied to the window already cut at `before`
TrimToSentence(window, term) ==
    LET before == rfind(window, <<FULL_STOP>>, 0, find(window, term, 0))
        after == find(window, <<FULL_STOP>>, find(window, term, 0) + Len(term))
        w1 == IF before # -1 THEN Slice(window, before + 1, Len(window)) ELSE window
        w2 == IF after # -1 THEN Slice(w1, 0, after + 1) ELSE w1
    IN  w2

\* LimitContext without the least length of 6
LimitContextAnyLength(window0) ==
    LET window == strip(window0)
    IN  IF Len(window) > 160
        THEN RStrip(Slice(window, 0, 160), WHITESPACE) \o <<ELLIPSIS>>
        ELSE window

\* lines 295-300
LimitContext(window0) ==
    LET window == strip(window0)
    IN  IF Len(window) < 6 THEN None
        ELSE IF Len(window) > 160
             THEN RStrip(Slice(window, 0, 160), WHITESPACE) \o <<ELLIPSIS>>
        ELSE window

_extract_context(text, term) ==
    IF find(text, term, 0) < 0 THEN None
    ELSE IF ContextWindow(text, term) = << >> THEN None
    ELSE LimitContext(TrimToSentence(ContextWindow(text, term), term))

----------------------------------------------------------------------------
(* run_extract_terms.py: _concept_type *)

metric_markers == <<
    <<39640>>,
    <<38989>>,
    <<21033, 30410>>,
    <<25613, 22833>>,
    <<21454, 30410>>,
    <<22770, 19978>>,
    <<36027>>,
    <<12467, 12473, 12488>>,
    <<29575>>,
    <<27604, 29575>>,
    <<20214, 25968>>,
    <<20154, 25968>>,
    <<25968, 37327>>,
    <<21336, 20385>>,
    <<75, 80, 73>>,
    <<82, 79, 69>>,
    <<82, 79, 65>>,
    <<69, 66, 73, 84, 68, 65>>,
    <<69, 80, 83>>,
    <<80, 69, 82>>,
    <<80, 66, 82>>,
    <<67, 70>>,
    <<70, 67, 70>> >>

event_markers == <<
    <<28187, 25613>>,
    <<36023, 21454>>,
    <<21512, 20341>>,
    <<21462, 24471>>,
    <<22770, 21364>>,
    <<35380, 35359>>,
    <<35336, 19978>>,
    <<30330, 29983>>,
    <<36969, 29992>> >>

structure_markers == <<
    <<12475, 12464, 12513, 12531, 12488>>,
    <<26041, 37341>>,
    <<25126, 30053>>,
    <<35336, 30011>>,
    <<12514, 12487, 12523>>,
    <<12471, 12473, 12486, 12512>>,
    <<12503, 12525, 12475, 12473>>,
    <<20307, 21046>>,
    <<12460, 12496, 12490, 12531, 12473>>,
    <<20869, 37096, 32113, 21046>> >>

entity_markers == <<
    <<22996, 21729, 20250>>,
    <<12464, 12523, 12540, 12503>>,
    <<23376, 20250, 31038>>,
    <<36899, 32080, 23376, 20250, 31038>>,
    <<37096>>,
    <<26412, 37096>>,
    <<23460>>,
    <<20250>> >>

\* any(m in term for m in markers)
AnyIn(markers, term) == \E k \in DOMAIN markers : In(markers[k], term)

\* _concept_type with the Structure markers tried before the Metric markers
_concept_type_structure_first(term) ==
    IF AnyIn(structure_markers, term) THEN "Structure"
    ELSE IF AnyIn(metric_markers, term) THEN "Metric"
    ELSE IF AnyIn(event_markers, term) THEN "Event"
    ELSE IF AnyIn(entity_markers, term) THEN "Entity"
    ELSE "Other"

_concept_type(term) ==
    IF AnyIn(metric_markers, term) THEN "Metric"
    ELSE IF AnyIn(event_markers, term) THEN "Event"
    ELSE IF AnyIn(structure_markers, term) THEN "Structure"
    ELSE IF AnyIn(entity_markers, term) THEN "Entity"
    ELSE "Other"

----------------------------------------------------------------------------
(* run_extract_terms.py: candidates of a page *)

\* A token of the tokenizer is [surface, pos1, pos2]; the tokenizer itself is
\* an external service, its output is an input of the model.
POS_NOUN == <<21517, 35422>>
POS_EXCLUDED == {
    <<25968>>,
    <<38750, 33258, 31435>>,
    <<20195, 21517, 35422>>,
    <<25509, 23614>> }

_is_noun_token(token) == token.pos1 = POS_NOUN /\ token.pos2 \notin POS_EXCLUDED

\* re.fullmatch(r"[A-Za-z0-9]+", surface)
IsAlnumSurface(surface) ==
    surface # << >> /\ \A i \in 1..Len(surface) : IsAsciiAlnum(surface[i])

_is_termish_surface(surface) ==
    /\ surface # << >>
    /\ (surface \in {<<c>> : c \in CONNECTORS} \/ IsAlnumSurface(surface))

\* lines 208-212: "noun", "connector" or "none" (kind is None)
KindOf(token) ==
    IF _is_noun_token(token) THEN "noun"
    ELSE IF _is_termish_surface(token.surface)
         THEN (IF IsAlnumSurface(token.surface) THEN "noun" ELSE "connector")
    ELSE "none"

_join_surfaces(surfaces) == strip(Concat(surfaces))

\* lines 186-199, one value of i (1-based here): the single noun, then the
\* phrase left by the inner loop, which is the one of the longest window
\* because the test of line 198 follows the loop over j
CandidatesAt(segment, kinds, i) ==
    LET max_tokens == 6
        last == IF Len(segment) < i + max_tokens - 1 THEN Len(segment)
                ELSE i + max_tokens - 1
        noun_count == Cardinality({j \in i..last : kinds[j] = "noun"})
        phrase == StripChars(_join_surfaces(SubSeq(segment, i, last)), CONNECTORS)
        single == IF kinds[i] = "noun" /\ segment[i] \notin {<<c>> : c \in CONNECTORS}
                  THEN <<segment[i]>> ELSE << >>
    IN  single \o (IF noun_count >= 2 /\ phrase # << >> /\ Len(phrase) <= MAX_TERM_CHARS
                   THEN <<phrase>> ELSE << >>)

RECURSIVE FlushFrom(_, _, _)
FlushFrom(segment, kinds, i) ==
    IF i > Len(segment) THEN << >>
    ELSE CandidatesAt(segment, kinds, i) \o FlushFrom(segment, kinds, i + 1)

flush_segment(segment, kinds) == FlushFrom(segment, kinds, 1)

\* lines 201-224: tokens is the token stream of the page, n the tokens consumed
RECURSIVE ExtractFrom(_, _, _, _)
ExtractFrom(tokens, n, segment, kinds) ==
    IF n > Len(tokens) THEN flush_segment(segment, kinds)
    ELSE IF KindOf(tokens[n]) = "none"
         THEN flush_segment(segment, kinds) \o ExtractFrom(tokens, n + 1, << >>, << >>)
    ELSE ExtractFrom(tokens, n + 1, Append(segment, tokens[n].surface),
                     Append(kinds, KindOf(tokens[n])))

extract_candidates(tokens) == ExtractFrom(tokens, 1, << >>, << >>)

----------------------------------------------------------------------------
(* run_extract_terms.py: process_company_dir *)

\* code-point order of Python's str comparison
LexLess(a, b) ==
    \E i \in 1..(Len(a) + 1) :
        /\ \A j \in 1..(i - 1) : j <= Len(b) /\ a[j] = b[j]
        /\ \/ i = Len(a) + 1 /\ Len(b) >= i
           \/ i <= Len(a) /\ i <= Len(b) /\ a[i] < b[i]

\* ^\d+_(.+)$ : the ordinal and the underscore are dropped when a name follows
_company_name_from_dirname(dirname) ==
    LET us == {k \in 2..(Len(dirname) - 1) :
                  dirname[k] = 95 /\ AllDigits(SubSeq(dirname, 1, k - 1))}
    IN  IF us = {} THEN dirname ELSE SubSeq(dirname, Min(us) + 1, Len(dirname))

\* lines 412-413
NormalizeTerm(raw_term) == StripChars(strip(_nfkc(raw_term)), CONNECTORS)

\* AcceptCandidate with the filter applied to the candidate as extracted, and
\* the normalised form counted
AcceptCandidateRawFilter(agg, raw_term, page_text, company) ==
    LET term == NormalizeTerm(raw_term)
        ctx == _extract_context(page_text, term)
    IN  IF _looks_bad(raw_term, company) THEN agg
        ELSE [counter |->
                  IF term \in DOMAIN agg.counter
                  THEN [agg.counter EXCEPT ![term] = @ + 1]
                  ELSE agg.counter @@ (term :> 1),
              first_context |->
                  IF term \notin DOMAIN agg.first_context /\ ctx # None /\ ctx # << >>
                  THEN agg.first_context @@ (term :> ctx)
                  ELSE agg.first_context]

\* AcceptCandidate that stores the context of every occurrence that has one
AcceptCandidateLastContext(agg, raw_term, page_text, company) ==
    LET term == NormalizeTerm(raw_term)
        ctx == _extract_context(page_text, term)
    IN  IF _looks_bad(term, company) THEN agg
        ELSE [counter |->
                  IF term \in DOMAIN agg.counter
                  THEN [agg.counter EXCEPT ![term] = @ + 1]
                  ELSE agg.counter @@ (term :> 1),
              first_context |->
                  IF ctx # None /\ ctx # << >>
                  THEN [t \in DOMAIN agg.first_context \cup {term} |->
                           IF t = term THEN ctx ELSE agg.first_context[t]]
                  ELSE agg.first_context]

\* lines 411-420, one raw candidate of a page; agg is [counter, first_context]
AcceptCandidate(agg, raw_term, page_text, company) ==
    LET term == NormalizeTerm(raw_term)
        ctx == _extract_context(page_text, term)
    IN  IF _looks_bad(term, company) THEN agg
        ELSE [counter |->
                  IF term \in DOMAIN agg.counter
                  THEN [agg.counter EXCEPT ![term] = @ + 1]
                  ELSE agg.counter @@ (term :> 1),
              first_context |->
                  IF term \notin DOMAIN agg.first_context /\ ctx # None /\ ctx # << >>
                  THEN agg.first_context @@ (term :> ctx)
                  ELSE agg.first_context]

\* counter.most_common(n)[-1][1]: the n-th largest count
CutoffCount(counter, n) ==
    CHOOSE c \in {counter[t] : t \in DOMAIN counter} :
        /\ Cardinality({t \in DOMAIN counter : counter[t] > c}) < n
        /\ Cardinality({t \in DOMAIN counter : counter[t] >= c}) >= n

\* NeedsNarrowing that never narrows
NeedsNarrowingNever(counter, cap) ==
    Cardinality(DOMAIN counter) > cap /\ CutoffCount(counter, cap) < 1

\* lines 422-428
NeedsNarrowing(counter, cap) ==
    Cardinality(DOMAIN counter) > cap /\ CutoffCount(counter, cap) <= 1

NarrowCounter(counter, cap) ==
    IF NeedsNarrowing(counter, cap)
    THEN [t \in {u \in DOMAIN counter : counter[u] >= 2} |-> counter[t]]
    ELSE counter

\* KeyLess with ties broken by the word in descending order
KeyLessDescendingWord(counter, a, b) ==
    counter[a] > counter[b] \/ (counter[a] = counter[b] /\ LexLess(b, a))

\* the sort key of line 430: (-count, word)
KeyLess(counter, a, b) ==
    counter[a] > counter[b] \/ (counter[a] = counter[b] /\ LexLess(a, b))

\* sorted(counter.items(), key=lambda kv: (-kv[1], kv[0])), words only
RECURSIVE SortedTerms(_, _)
SortedTerms(counter, rest) ==
    IF rest = {} THEN << >>
    ELSE LET first == CHOOSE t \in rest : \A u \in rest \ {t} : KeyLess(counter, t, u)
         IN  <<first>> \o SortedTerms(counter, rest \ {first})

\* lines 430-431
TopTerms(counter, cap) ==
    LET terms_sorted == SortedTerms(counter, DOMAIN counter)
    IN  SubSeq(terms_sorted, 1, IF Len(terms_sorted) < cap THEN Len(terms_sorted) ELSE cap)

_category(term) ==
    IF \E k \in {<<22770, 19978>>, <<21033, 30410>>, <<21454, 30410>>, <<36027, 29992>>, <<21407, 20385>>, <<21942, 26989>>, <<32076, 24120>>} : In(k, term)
    THEN "PL"
    ELSE IF \E k \in {<<36039, 29987>>, <<36000, 20661>>, <<32020, 36039, 29987>>, <<12398, 12428, 12435>>, <<26666, 20027, 36039, 26412>>} : In(k, term)
    THEN "BS"
    ELSE IF \/ In(<<12461, 12515, 12483, 12471, 12517>>, term)
            \/ (Len(term) >= 2 /\ SubSeq(term, Len(term) - 1, Len(term)) = <<67, 70>>)
            \/ In(<<12461, 12515, 12483, 12471, 12517, 12539, 12501, 12525, 12540>>, term)
    THEN "CF"
    ELSE IF In(<<12522, 12473, 12463>>, term) THEN "Risk"
    ELSE IF \E k \in {<<12460, 12496, 12490, 12531, 12473>>, <<20869, 37096, 32113, 21046>>, <<12467, 12531, 12503, 12521, 12452, 12450, 12531, 12473>>} : In(k, term)
    THEN "Governance"
    ELSE IF \E k \in {<<12475, 12464, 12513, 12531, 12488>>, <<75, 80, 73>>, <<20107, 26989>>, <<39015, 23458>>, <<25126, 30053>>} : In(k, term)
    THEN "Business"
    ELSE "None"

\* lines 435-450: keys whose value is None are popped
Entry(term, first_context, company) ==
    LET meta == [pos |-> <<21517, 35422>>, conceptType |-> _concept_type(term),
                 source |-> <<26377, 20385, 35388, 21048, 22577, 21578, 26360>>, company |-> company]
        metadata == IF _category(term) = "None" THEN meta
                    ELSE meta @@ ("category" :> _category(term))
        entry == [word |-> term, metadata |-> metadata]
    IN  IF term \in DOMAIN first_context
        THEN entry @@ ("description" :> first_context[term])
        ELSE entry

----------------------------------------------------------------------------
(* run_microfix_outputs.py: the filters of pass 2 *)

GENERIC_STOPWORDS == {
    <<20250, 31038>>,
    <<26399, 38291>>,
    <<20107, 38917>>,
    <<21487, 33021>>,
    <<29366, 27841>>,
    <<26041, 27861>>,
    <<24403, 35442>>,
    <<19978, 35352>>,
    <<35352, 36617>>,
    <<25552, 20986>>,
    <<26360, 39006>>,
    <<24180, 24230>>,
    <<26376>>,
    <<26085>>,
    <<26178, 28857>>,
    <<29694, 22312>>,
    <<24403, 26399>>,
    <<24403, 31038>> }

FORM_TERMS == {
    <<69, 68, 73, 78, 69, 84>>,
    <<69, 68, 73, 78, 69, 84, 25552, 20986, 26360, 39006>>,
    <<25552, 20986, 26360, 39006>>,
    <<26377, 20385, 35388, 21048, 22577, 21578, 26360>>,
    <<26377, 20385, 35388, 21048, 22577, 21578>>,
    <<35388, 21048, 22577, 21578>> }

\* a run of between lo and hi digits starts at 0-based position i of s and
\* ends right before position j
DigitRun(s, i, j, lo, hi) ==
    /\ j - i >= lo /\ j - i <= hi /\ i >= 0 /\ j <= Len(s)
    /\ \A k \in (i + 1)..j : IsDigit(s[k])

\* some character of s is in cs
HasAny(s, cs) == \E i \in 1..Len(s) : s[i] \in cs

\* s.count(c)
Count(s, c) == Cardinality({i \in 1..Len(s) : s[i] = c})

\* E\d{5}, searched
RE_EDINET_CODE(w) ==
    \E i \in 1..Len(w) : w[i] = 69 /\ DigitRun(w, i, i + 5, 5, 5)

\* [【】], searched
RE_HAS_BRACKETS(w) == HasAny(w, {12304, 12305})

\* ^[\d,.\-–—/]+$ (the pattern of run_microfix_outputs.py)
RE_ONLY_NUM_PUNCT_FIX(w) ==
    w # << >> /\ \A i \in 1..Len(w) : IsDigit(w[i]) \/ w[i] \in {44, 46, 45, 8211, 8212, 47}

\* ^(?:\(\d+\)|\d+\))$
RE_FOOTNOTE(w) ==
    \/ Len(w) >= 3 /\ w[1] = 40 /\ w[Len(w)] = 41 /\ AllDigits(SubSeq(w, 2, Len(w) - 1))
    \/ Len(w) >= 2 /\ w[Len(w)] = 41 /\ AllDigits(SubSeq(w, 1, Len(w) - 1))

\* ^\d+\s*/\s*\d+$
RE_PAGE_FRACTION(w) ==
    \E i \in 1..Len(w) :
        /\ w[i] = 47
        /\ AllDigits(RStrip(SubSeq(w, 1, i - 1), WHITESPACE))
        /\ AllDigits(LStrip(SubSeq(w, i + 1, Len(w)), WHITESPACE))

\* ^(?:第?\d+(?:章|節|項|期)|\d+(?:章|節|項))$
RE_SECTION(w) == RE_SECTION_LIKE(w)

\* \d{4} sep \d{1,2} sep \d{1,2} somewhere in w
DateInside(w, sep) ==
    \E i \in 0..Len(w), a \in 1..2 :
        /\ DigitRun(w, i, i + 4, 4, 4)
        /\ i + 6 + a <= Len(w)
        /\ w[i + 5] = sep
        /\ DigitRun(w, i + 5, i + 5 + a, a, a)
        /\ w[i + 6 + a] = sep
        /\ i + 7 + a <= Len(w) /\ IsDigit(w[i + 7 + a])

\* (?:\d{4}年|\d{1,2}月\d{0,2}(?:日)?|\d{4}/\d{1,2}/\d{1,2}|\d{4}-\d{1,2}-\d{1,2}), searched
RE_DATE_FRAGMENT(w) ==
    \/ \E i \in 5..Len(w) : w[i] = 24180 /\ DigitRun(w, i - 5, i - 1, 4, 4)
    \/ \E i \in 2..Len(w) : w[i] = 26376 /\ IsDigit(w[i - 1])
    \/ DateInside(w, 47)
    \/ DateInside(w, 45)

\* ^月\d+(?:日)?$
RE_MONTH_LEADING(w) ==
    /\ Len(w) >= 2 /\ w[1] = 26376
    /\ \/ AllDigits(Tail(w))
       \/ Len(w) >= 3 /\ w[Len(w)] = 26085 /\ AllDigits(SubSeq(w, 2, Len(w) - 1))

\* ^\d+月$
RE_MONTH_TRAILING(w) ==
    Len(w) >= 2 /\ w[Len(w)] = 26376 /\ AllDigits(SubSeq(w, 1, Len(w) - 1))

\* (?:単位|百万円|千円|円|株|％|%|回|人|件|台|社|日|月|年), searched
RE_UNIT_FRAGMENT(w) ==
    \/ In(<<21336, 20301>>, w)
    \/ HasAny(w, {20870, 26666, 65285, 37, 22238, 20154, 20214, 21488, 31038, 26085, 26376, 24180})

\* [()（）], searched
RE_PARENS(w) == HasAny(w, {40, 41, 65288, 65289})

_is_noisy_word(word, company) ==
    LET w == strip(word)
    IN  \/ w = << >>
        \/ w \in FORM_TERMS
        \/ w \in GENERIC_STOPWORDS
        \/ RE_EDINET_CODE(w)
        \/ RE_HAS_BRACKETS(w)
        \/ RE_ONLY_NUM_PUNCT_FIX(w)
        \/ RE_FOOTNOTE(w)
        \/ RE_PAGE_FRACTION(w)
        \/ RE_SECTION(w)
        \/ RE_DATE_FRAGMENT(w)
        \/ RE_MONTH_LEADING(w) \/ RE_MONTH_TRAILING(w)
        \/ /\ RE_PARENS(w)
           /\ (Count(w, 40) # Count(w, 41) \/ Count(w, 65288) # Count(w, 65289))
        \/ RE_PARENS(w) /\ RE_UNIT_FRAGMENT(w)
        \/ w # << >> /\ w[Len(w)] \in {41, 65289} /\ RE_UNIT_FRAGMENT(w)
        \/ w # << >> /\ w[Len(w)] = 58 /\ In(<<21336, 20301>>, w)
        \/ w = company

\* \b0\d{1,4}-\d{1,4}-\d{3,4}\b, searched
RE_PHONE(d) ==
    \E i \in 1..Len(d), a \in 1..4, b \in 1..4, c \in 3..4 :
        LET e == i + a + 1 + b + 1 + c
        IN  /\ d[i] = 48
            /\ (i = 1 \/ ~IsWordChar(d[i - 1]))
            /\ e <= Len(d)
            /\ DigitRun(d, i, i + a, a, a)
            /\ d[i + a + 1] = 45
            /\ DigitRun(d, i + a + 1, i + a + 1 + b, b, b)
            /\ d[i + a + b + 2] = 45
            /\ DigitRun(d, i + a + b + 2, e, c, c)
            /\ (e = Len(d) \/ ~IsWordChar(d[e + 1]))

\* (?:東京都|北海道|(?:京都|大阪)府|.{2,3}県).*(?:市|区|町|村).*(?:丁目|番|号|\d{1,4}-\d{1,4}),
\* searched; "." does not match a line feed.  p, q, r are the 0-based ends of the
\* three parts.
RE_ADDRESS_LIKE(d) ==
    \E p \in 0..Len(d), q \in 0..Len(d), r \in 0..Len(d) :
        /\ p < q /\ q < r
        /\ \A k \in (p + 1)..r : d[k] # 10
        /\ \/ p >= 3 /\ SubSeq(d, p - 2, p) \in {<<26481, 20140, 37117>>, <<21271, 28023, 36947>>, <<20140, 37117, 24220>>, <<22823, 38442, 24220>>}
           \/ p >= 3 /\ d[p] = 30476 /\ d[p - 1] # 10 /\ d[p - 2] # 10
        /\ d[q] \in {24066, 21306, 30010, 26449}
        /\ \/ r - q >= 2 /\ SubSeq(d, r - 1, r) = <<19969, 30446>>
           \/ d[r] \in {30058, 21495}
           \/ r - q >= 3 /\ IsDigit(d[r]) /\ d[r - 1] = 45 /\ IsDigit(d[r - 2])

COVER_MARKERS == {
    <<69, 68, 73, 78, 69, 84, 25552, 20986, 26360, 39006>>,
    <<12304, 34920, 32025, 12305>>,
    <<12304, 25552, 20986>>,
    <<36001, 21209, 23616, 38263>>,
    <<38651, 35441, 30058, 21495>>,
    <<12304, 20250, 31038, 21517, 12305>>,
    <<12304, 33521, 35379, 21517, 12305>>,
    <<12304, 20195, 34920, 32773>> }

_is_noisy_description(desc) ==
    LET d == strip(desc)
        digits == Cardinality({i \in 1..Len(d) : IsDigit(d[i])})
    IN  \/ d = << >>
        \/ \E m \in COVER_MARKERS : In(m, d)
        \/ RE_PHONE(d)
        \/ RE_ADDRESS_LIKE(d)
        \* digits / max(1, len(d)) > 0.35 and len(d) < 120
        \/ 100 * digits > 35 * Len(d) /\ Len(d) < 120
        \/ Len(d) < 10

----------------------------------------------------------------------------
(* the persisted artifacts *)

\* A text file is its content, a sequence of code points.  The record list is
\* kept as its sequence of lines, a line being the JSON object it encodes
\* (json.dumps and json.loads are inverse on objects of strings) or BlankLine.
\* A file is NoFile when it does not exist and File(content) when it does.
NoFile == [exists |-> FALSE]
File(content) == [exists |-> TRUE, content |-> content]
BlankLine == [blank |-> TRUE]

\* "\n".join(lines)
RECURSIVE JoinLines(_)
JoinLines(lines) ==
    IF lines = << >> THEN << >>
    ELSE IF Len(lines) = 1 THEN lines[1]
    ELSE lines[1] \o <<10>> \o JoinLines(Tail(lines))

\* the line boundaries of str.splitlines()
LINE_BREAKS == {10, 11, 12, 13, 28, 29, 30, 133, 8232, 8233}

\* str.splitlines(): no empty last line after a final line break, "\r\n" is one break
RECURSIVE SplitLines(_)
SplitLines(s) ==
    IF s = << >> THEN << >>
    ELSE LET brk == {i \in 1..Len(s) : s[i] \in LINE_BREAKS}
         IN  IF brk = {} THEN <<s>>
             ELSE LET i == Min(brk)
                      n == IF s[i] = 13 /\ i < Len(s) /\ s[i + 1] = 10 THEN i + 1 ELSE i
                  IN  <<SubSeq(s, 1, i - 1)>> \o SplitLines(SubSeq(s, n + 1, Len(s)))

\* [line.strip() for line in lines if line.strip()]
RECURSIVE StripNonEmpty(_)
StripNonEmpty(lines) ==
    IF lines = << >> THEN << >>
    ELSE IF strip(Head(lines)) = << >> THEN StripNonEmpty(Tail(lines))
    ELSE <<strip(Head(lines))>> \o StripNonEmpty(Tail(lines))

_load_words(content) == StripNonEmpty(SplitLines(content))

_write_words(words) == JoinLines(words) \o <<10>>

_load_jsonl(lines) == SelectSeq(lines, LAMBDA l : l # BlankLine)

\* "\n".join([]) + "\n" is one empty line
_write_jsonl(items) == IF items = << >> THEN <<BlankLine>> ELSE items

----------------------------------------------------------------------------
(* run_extract_terms.py: process_company_dir on the documents of an Entity *)

\* A PDF is the sequence of its pages after extract_pdf_pages_text, a page
\* being [text, tokens]: the cleaned text and the tokenizer's tokens of it.
PagesWithText(pdf) == Cardinality({k \in 1..Len(pdf) : pdf[k].text # << >>})

\* the (page_text, raw_term) pairs in the order of the loops of lines 401-411
PagePairs(page) ==
    IF page.text = << >> THEN << >>
    ELSE LET cands == extract_candidates(page.tokens)
         IN  [k \in 1..Len(cands) |-> [page_text |-> page.text, raw_term |-> cands[k]]]

RECURSIVE PdfPairs(_)
PdfPairs(pages) ==
    IF pages = << >> THEN << >> ELSE PagePairs(Head(pages)) \o PdfPairs(Tail(pages))

RECURSIVE AllPairs(_)
AllPairs(pdfs) ==
    IF pdfs = << >> THEN << >>
    ELSE (IF PagesWithText(Head(pdfs)) = 0 THEN << >> ELSE PdfPairs(Head(pdfs)))
         \o AllPairs(Tail(pdfs))

\* the loops of lines 401-420 over all candidates; a rejected candidate leaves
\* agg as it is (the comparison also has TLC evaluate next before it goes on)
RECURSIVE Aggregate(_, _, _)
Aggregate(agg, pairs, company) ==
    IF pairs = << >> THEN agg
    ELSE LET next == AcceptCandidate(agg, Head(pairs).raw_term, Head(pairs).page_text, company)
         IN  IF next = agg THEN Aggregate(agg, Tail(pairs), company)
             ELSE Aggregate(next, Tail(pairs), company)

EmptyAgg == [counter |-> << >>, first_context |-> << >>]

\* lines 404-405 and 425-427: the notes of the result
NOTE_NO_PDF == "no_pdf"
NOTE_NO_TEXT == "no_text"
NOTE_NARROWED == "narrowed"

ScanNotes(pdfs) ==
    LET scanned == SelectSeq(pdfs, LAMBDA pdf : PagesWithText(pdf) = 0)
    IN  [k \in 1..Len(scanned) |-> NOTE_NO_TEXT]

\* lines 422-463: the result dict built from the frequency map and the contexts
BuildResult(company, agg, cap, scan_notes) ==
    LET counter == NarrowCounter(agg.counter, cap)
        top_terms == TopTerms(counter, cap)
    IN  [company |-> company,
         terms |-> top_terms,
         entries |-> [k \in 1..Len(top_terms) |->
                         Entry(top_terms[k], agg.first_context, company)],
         stats |-> [unique_terms |-> Cardinality(DOMAIN counter),
                    selected_terms |-> Len(top_terms)],
         notes |-> scan_notes \o
                   (IF NeedsNarrowing(agg.counter, cap) THEN <<NOTE_NARROWED>> ELSE << >>)]

\* the result dict; without PDFs it has no "entries" and no "stats" key
process_company_dir(dirname, pdfs, cap) ==
    LET company == _company_name_from_dirname(dirname)
    IN  IF pdfs = << >>
        THEN [company |-> company, terms |-> << >>, notes |-> <<NOTE_NO_PDF>>]
        ELSE BuildResult(company, Aggregate(EmptyAgg, AllPairs(pdfs), company), cap,
                         ScanNotes(pdfs))

----------------------------------------------------------------------------
(* run_microfix_outputs.py: microfix_company *)

\* lines 209-217
RECURSIVE KeepWords(_, _, _)
KeepWords(words_in, company, seen) ==
    IF words_in = << >> THEN << >>
    ELSE IF _is_noisy_word(Head(words_in), company) \/ Head(words_in) \in seen
         THEN KeepWords(Tail(words_in), company, seen)
    ELSE <<Head(words_in)>> \o KeepWords(Tail(words_in), company, seen \cup {Head(words_in)})

\* (item.get("word") or "").strip()
ItemWord(item) ==
    IF "word" \in DOMAIN item /\ item.word # None THEN strip(item.word) ELSE << >>

\* item.pop("description", None) on a copy
DropDescription(item) == [k \in DOMAIN item \ {"description"} |-> item[k]]

\* FixDescription that drops every description
FixDescriptionAlways(item) ==
    IF "description" \in DOMAIN item THEN DropDescription(item) ELSE item

\* lines 228-232; a description that is no string is left alone
FixDescription(item) ==
    IF "description" \in DOMAIN item /\ item.description # None
       /\ _is_noisy_description(item.description)
    THEN DropDescription(item) ELSE item

\* ItemsOut that removes a record with a noisy description
RECURSIVE ItemsOutDropNoisy(_, _)
ItemsOutDropNoisy(items_in, keep_set) ==
    IF items_in = << >> THEN << >>
    ELSE IF ItemWord(Head(items_in)) = << >> \/ ItemWord(Head(items_in)) \notin keep_set
            \/ FixDescription(Head(items_in)) # Head(items_in)
         THEN ItemsOutDropNoisy(Tail(items_in), keep_set)
    ELSE <<Head(items_in)>> \o ItemsOutDropNoisy(Tail(items_in), keep_set)

\* lines 224-233
RECURSIVE ItemsOut(_, _)
ItemsOut(items_in, keep_set) ==
    IF items_in = << >> THEN << >>
    ELSE IF ItemWord(Head(items_in)) = << >> \/ ItemWord(Head(items_in)) \notin keep_set
         THEN ItemsOut(Tail(items_in), keep_set)
    ELSE <<FixDescription(Head(items_in))>> \o ItemsOut(Tail(items_in), keep_set)

\* lines 236-240: by_word[w] is the first item whose "word" is w
HasItem(items, w) == \E k \in 1..Len(items) : items[k].word = w
FirstItem(items, w) == items[Min({k \in 1..Len(items) : items[k].word = w})]

\* line 241
RECURSIVE OrderItems(_, _)
OrderItems(items_out, keep_words) ==
    IF keep_words = << >> THEN << >>
    ELSE (IF HasItem(items_out, Head(keep_words))
          THEN <<FirstItem(items_out, Head(keep_words))>> ELSE << >>)
         \o OrderItems(items_out, Tail(keep_words))

\* the number of descriptions dropped (desc_dropped)
DescDropped(items_in, keep_set) ==
    LET kept == SelectSeq(items_in, LAMBDA it : ItemWord(it) # << >> /\ ItemWord(it) \in keep_set)
    IN  Cardinality({k \in 1..Len(kept) : FixDescription(kept[k]) # kept[k]})

\* microfix_company that orders the records by the lines read, not by the
\* words kept
microfix_company_by_lines(dirname, txt, jsonl) ==
    LET company == _company_name_from_dirname(dirname)
        words_in == _load_words(txt)
        keep_words == KeepWords(words_in, company, {})
        items_in == _load_jsonl(jsonl)
        keep_set == {keep_words[k] : k \in 1..Len(keep_words)}
        items_out == ItemsOut(items_in, keep_set)
        items_out_ordered == OrderItems(items_out, words_in)
    IN  [txt |-> _write_words(keep_words),
         jsonl |-> _write_jsonl(items_out_ordered),
         stats |-> [words_in |-> Len(words_in), words_out |-> Len(keep_words),
                    jsonl_in |-> Len(items_in), jsonl_out |-> Len(items_out_ordered),
                    desc_dropped |-> DescDropped(items_in, keep_set),
                    words_dropped |-> Len(words_in) - Len(keep_words)]]

\* lines 208-244 on the two artifacts of an Entity: the contents written back
microfix_company(dirname, txt, jsonl) ==
    LET company == _company_name_from_dirname(dirname)
        words_in == _load_words(txt)
        keep_words == KeepWords(words_in, company, {})
        items_in == _load_jsonl(jsonl)
        keep_set == {keep_words[k] : k \in 1..Len(keep_words)}
        items_out == ItemsOut(items_in, keep_set)
        items_out_ordered == OrderItems(items_out, keep_words)
    IN  [txt |-> _write_words(keep_words),
         jsonl |-> _write_jsonl(items_out_ordered),
         stats |-> [words_in |-> Len(words_in), words_out |-> Len(keep_words),
                    jsonl_in |-> Len(items_in), jsonl_out |-> Len(items_out_ordered),
                    desc_dropped |-> DescDropped(items_in, keep_set),
                    words_dropped |-> Len(words_in) - Len(keep_words)]]

----------------------------------------------------------------------------
(* the inputs of the model *)

Tok(surface, pos1, pos2) == [surface |-> surface, pos1 |-> pos1, pos2 |-> pos2]
Noun(surface) == Tok(surface, POS_NOUN, <<19968, 33324>>)
Suffix(surface) == Tok(surface, POS_NOUN, <<25509, 23614>>)
Number(surface) == Tok(surface, POS_NOUN, <<25968>>)
Particle(surface) == Tok(surface, <<21161, 35422>>, <<26684, 21161, 35422>>)
Symbol(surface) == Tok(surface, <<35352, 21495>>, <<19968, 33324>>)

\* a page of running text
PAGE_SALES ==
    [text |-> <<24403, 31038, 12398, 22770, 19978, 39640, 12399, 21069, 26399, 27604, 12391, 22679, 21152, 12375, 12383, 12290, 21942, 26989, 21033, 30410, 12418, 22679, 21152, 12375, 12383, 12290>>,
     tokens |-> << Noun(<<24403, 31038>>), Particle(<<12398>>), Noun(<<22770, 19978, 39640>>), Particle(<<12399>>),
                   Noun(<<21069, 26399>>), Suffix(<<27604>>), Particle(<<12391>>), Noun(<<22679, 21152>>),
                   Particle(<<12375, 12383>>), Symbol(<<12290>>),
                   Noun(<<21942, 26989>>), Noun(<<21033, 30410>>), Particle(<<12418>>), Noun(<<22679, 21152>>),
                   Particle(<<12375, 12383>>), Symbol(<<12290>>) >>]

\* a cover page of the filing
PAGE_COVER ==
    [text |-> <<12304, 34920, 32025, 12305, 69, 68, 73, 78, 69, 84, 25552, 20986, 26360, 39006, 32, 65, 66, 32, 26377, 20385, 35388, 21048, 22577, 21578, 26360, 32, 50, 48, 50, 48, 24180, 51, 26376, 26399, 32, 69, 49, 50, 51, 52, 53>>,
     tokens |-> << Symbol(<<12304>>), Noun(<<34920, 32025>>), Symbol(<<12305>>),
                   Noun(<<69, 68, 73, 78, 69, 84>>), Noun(<<25552, 20986>>), Noun(<<26360, 39006>>), Symbol(<<32>>),
                   Noun(<<65, 66>>), Symbol(<<32>>), Noun(<<26377, 20385, 35388, 21048, 22577, 21578, 26360>>), Symbol(<<32>>),
                   Number(<<50, 48, 50, 48>>), Suffix(<<24180>>), Number(<<51>>), Suffix(<<26376>>),
                   Suffix(<<26399>>), Symbol(<<32>>), Noun(<<69, 49, 50, 51, 52, 53>>) >>]

\* a page without extractable text
PAGE_SCAN == [text |-> << >>, tokens |-> << >>]

PDF_REPORT == << PAGE_COVER, PAGE_SALES >>
PDF_SALES == << PAGE_SALES >>
PDF_SCAN == << PAGE_SCAN >>

\* what sorted(company_dir.glob("*.pdf")) may find in the folder of an Entity
DOCSETS == { << >>, << PDF_REPORT >>, << PDF_SALES >>, << PDF_SCAN >>, << PDF_SCAN, PDF_SALES >> }

\* the Entity folders: "1_AB" (company "AB") and "XY" (no ordinal)
DIRNAMES == { <<49, 95, 65, 66>>, <<88, 89>> }

\* sorted(dirs)
RECURSIVE SortedDirs(_)
SortedDirs(dirs) ==
    IF dirs = {} THEN << >>
    ELSE LET first == CHOOSE d \in dirs : \A e \in dirs \ {d} : LexLess(d, e)
         IN  <<first>> \o SortedDirs(dirs \ {first})

\* runs of pass 2 on one Entity are counted up to this bound
MaxFixRuns == 2

----------------------------------------------------------------------------
(* the state *)

VARIABLES
    out_txt,        \* output/<dir>/wordList/wordList.txt of every Entity folder
    out_jsonl,      \* output/<dir>/metadata/wordList.jsonl
    out_log,        \* output/<dir>/worklog.md, as its sequence of sections
    batch,          \* "idle", or the main() that is running: "generate", "refine"
    queue,          \* company_dirs of the running main()
    next_i,         \* position in queue of the next Entity
    error,          \* the exception that ended the last main(), or "none"
    notes,          \* the notes of the last result of process_company_dir, by folder
    last_run,       \* by folder: the last run over it and how it ended
    company, cap, counter, first_context, result,      \* one process_company_dir
    seen_pages,     \* by term: the pages of its accepted occurrences, in order
    text, term, ctx, concept,                          \* one call of a pure function
    tokens, candidates,                                \* one call of extract_candidates
    verdict,        \* by filter: whether it rejected the word it was called with
    max_pages,      \* the glossary crawler: --max-pages
    category_i,     \* position in CATEGORIES of the category main is at
    page, prev_fp,  \* the running _crawl_category
    category_terms, \* all_terms of the running _crawl_category
    all_terms,      \* all_terms of main
    uniq_all,       \* the lines written to --output
    fetched,        \* by position in CATEGORIES: what _fetch_page gave, in order
    pc

vars == << out_txt, out_jsonl, out_log, batch, queue, next_i, error, notes, last_run,
           company, cap, counter, first_context, result, seen_pages,
           text, term, ctx, concept, tokens, candidates, verdict,
           max_pages, category_i, page, prev_fp, category_terms, all_terms, uniq_all, fetched, pc >>

pipeline_vars == << out_txt, out_jsonl, out_log, batch, queue, next_i, error, notes, last_run >>
agg_vars == << company, cap, counter, first_context, result, seen_pages >>
call_vars == << text, term, ctx, concept, tokens, candidates, verdict >>
crawl_vars == << max_pages, category_i, page, prev_fp, category_terms, all_terms, uniq_all, fetched >>

PipelineIdle ==
    /\ out_txt = [d \in DIRNAMES |-> NoFile]
    /\ out_jsonl = [d \in DIRNAMES |-> NoFile]
    /\ out_log = [d \in DIRNAMES |-> NoFile]
    /\ batch = "idle" /\ queue = << >> /\ next_i = 0 /\ error = "none"
    /\ notes = [d \in DIRNAMES |-> << >>]
    /\ last_run = [d \in DIRNAMES |-> "none"]

NoResult == [company |-> << >>, terms |-> << >>, notes |-> << >>]

AggIdle ==
    /\ company = << >> /\ cap = MAX_TERMS_PER_COMPANY
    /\ counter = << >> /\ first_context = << >> /\ result = NoResult
    /\ seen_pages = << >>

CallIdle ==
    /\ text = << >> /\ term = << >> /\ ctx = None /\ concept = "None"
    /\ tokens = << >> /\ candidates = << >> /\ verdict = << >>

CrawlIdle ==
    /\ max_pages = 0 /\ category_i = 0 /\ page = 0 /\ prev_fp = None
    /\ category_terms = << >> /\ all_terms = << >> /\ uniq_all = << >> /\ fetched = << >>

----------------------------------------------------------------------------
(* run_extract_terms.py: main and write_outputs *)

\* main, lines 531-536: resources/ holds the Entity folders
StartGenerate ==
    /\ batch = "idle"
    /\ batch' = "generate"
    /\ queue' = SortedDirs(DIRNAMES)
    /\ next_i' = 1
    /\ error' = "none"
    /\ UNCHANGED << out_txt, out_jsonl, out_log, notes, last_run >>

\* A worklog is a sequence of items: a block of lines the program writes as
\* one (its text neither starts nor ends with white space), or one character.
LogChar(c) == [kind |-> "char", ch |-> c]

\* the "\n" that joins the last line "" and the "\n" written after the join
LOG_END == << LogChar(10), LogChar(10) >>

\* str.rstrip() of a worklog
RECURSIVE RStripLog(_)
RStripLog(content) ==
    IF content = << >> THEN << >>
    ELSE IF content[Len(content)].kind = "char" /\ content[Len(content)].ch \in WHITESPACE
         THEN RStripLog(SubSeq(content, 1, Len(content) - 1))
    ELSE content

\* the lines write_outputs writes as the whole worklog, without the last ""
GenerateLog(res) ==
    [kind |-> "generate",
     selected_terms |-> IF "stats" \in DOMAIN res THEN res.stats.selected_terms ELSE 0,
     notes |-> res.notes]

\* one iteration of the loop of main: process_company_dir, then write_outputs.
\* Line 486 writes the word list; line 487 reads result["entries"], which the
\* res of a folder without PDFs does not have: KeyError, nothing else is
\* written and main ends.
GenerateCompany ==
    /\ batch = "generate"
    /\ next_i <= Len(queue)
    /\ \E pdfs \in DOCSETS :
        LET d == queue[next_i]
            res == process_company_dir(d, pdfs, MAX_TERMS_PER_COMPANY)
        IN  /\ out_txt' = [out_txt EXCEPT ![d] = File(_write_words(res.terms))]
            /\ notes' = [notes EXCEPT ![d] = res.notes]
            /\ IF "entries" \in DOMAIN res
               THEN /\ out_jsonl' = [out_jsonl EXCEPT ![d] = File(_write_jsonl(res.entries))]
                    /\ out_log' = [out_log EXCEPT ![d] = File(<<GenerateLog(res)>> \o LOG_END)]
                    /\ last_run' = [last_run EXCEPT ![d] = "generate"]
                    /\ next_i' = next_i + 1
                    /\ UNCHANGED << batch, error >>
               ELSE /\ last_run' = [last_run EXCEPT ![d] = "aborted"]
                    /\ error' = "KeyError"
                    /\ batch' = "idle"
                    /\ UNCHANGED << out_jsonl, out_log, next_i >>
    /\ UNCHANGED queue

\* the loop of main is exhausted
FinishGenerate ==
    /\ batch = "generate"
    /\ next_i > Len(queue)
    /\ batch' = "idle"
    /\ UNCHANGED << out_txt, out_jsonl, out_log, queue, next_i, error, notes, last_run >>

----------------------------------------------------------------------------
(* run_microfix_outputs.py: main and microfix_company *)

\* the folders of output/: a folder exists once write_outputs has made it
\* (lines 471-473), and wherever one of its files exists
OutputDirs ==
    {d \in DIRNAMES : out_txt[d].exists \/ out_jsonl[d].exists \/ out_log[d].exists}

FixSections(log) ==
    IF ~log.exists THEN 0
    ELSE Cardinality({k \in 1..Len(log.content) : log.content[k].kind = "microfix"})

\* main, lines 279-284
StartRefine ==
    /\ batch = "idle"
    /\ OutputDirs # {}
    /\ \A d \in OutputDirs : FixSections(out_log[d]) < MaxFixRuns
    /\ batch' = "refine"
    /\ queue' = SortedDirs(OutputDirs)
    /\ next_i' = 1
    /\ error' = "none"
    /\ UNCHANGED << out_txt, out_jsonl, out_log, notes, last_run >>

\* AppendFixLog that writes a new worklog over the one that was there
AppendFixLogOverwrite(log, stats) ==
    File(<<[kind |-> "title"]>>
         \o LOG_END \o <<[kind |-> "microfix", stats |-> stats]>> \o LOG_END)

\* lines 246-266: the worklog read and stripped at its end, or a title when
\* there was none; then an empty line, the section of this run and an empty line
AppendFixLog(log, stats) ==
    File((IF log.exists THEN RStripLog(log.content) ELSE <<[kind |-> "title"]>>)
         \o LOG_END \o <<[kind |-> "microfix", stats |-> stats]>> \o LOG_END)

\* MicrofixCompany that goes on to the next Entity when a file is missing
MicrofixCompanySkipMissing ==
    /\ batch = "refine"
    /\ next_i <= Len(queue)
    /\ LET d == queue[next_i]
           fixed == microfix_company(d, out_txt[d].content, out_jsonl[d].content)
       IN  IF ~out_txt[d].exists \/ ~out_jsonl[d].exists
           THEN /\ next_i' = next_i + 1
                /\ UNCHANGED << out_txt, out_jsonl, out_log, batch, error, last_run >>
           ELSE /\ out_txt' = [out_txt EXCEPT ![d] = File(fixed.txt)]
                /\ out_jsonl' = [out_jsonl EXCEPT ![d] = File(fixed.jsonl)]
                /\ out_log' = [out_log EXCEPT ![d] = AppendFixLog(out_log[d], fixed.stats)]
                /\ last_run' = [last_run EXCEPT ![d] = "refine"]
                /\ next_i' = next_i + 1
                /\ UNCHANGED << batch, error >>
    /\ UNCHANGED << queue, notes >>

\* one iteration of the loop of main: microfix_company
MicrofixCompany ==
    /\ batch = "refine"
    /\ next_i <= Len(queue)
    /\ LET d == queue[next_i]
           fixed == microfix_company(d, out_txt[d].content, out_jsonl[d].content)
       IN  IF ~out_txt[d].exists \/ ~out_jsonl[d].exists
           THEN /\ error' = "FileNotFoundError"
                /\ batch' = "idle"
                /\ UNCHANGED << out_txt, out_jsonl, out_log, next_i, last_run >>
           ELSE /\ out_txt' = [out_txt EXCEPT ![d] = File(fixed.txt)]
                /\ out_jsonl' = [out_jsonl EXCEPT ![d] = File(fixed.jsonl)]
                /\ out_log' = [out_log EXCEPT ![d] = AppendFixLog(out_log[d], fixed.stats)]
                /\ last_run' = [last_run EXCEPT ![d] = "refine"]
                /\ next_i' = next_i + 1
                /\ UNCHANGED << batch, error >>
    /\ UNCHANGED << queue, notes >>

\* the loop of main is exhausted
FinishRefine ==
    /\ batch = "refine"
    /\ next_i > Len(queue)
    /\ batch' = "idle"
    /\ UNCHANGED << out_txt, out_jsonl, out_log, queue, next_i, error, notes, last_run >>

----------------------------------------------------------------------------
(* the two passes run one after the other, in any order, on the same folders *)

Init == PipelineIdle /\ AggIdle /\ CallIdle /\ CrawlIdle /\ pc = "pipeline"

Next ==
    \/ StartGenerate /\ UNCHANGED << agg_vars, call_vars, crawl_vars, pc >>
    \/ GenerateCompany /\ UNCHANGED << agg_vars, call_vars, crawl_vars, pc >>
    \/ FinishGenerate /\ UNCHANGED << agg_vars, call_vars, crawl_vars, pc >>
    \/ StartRefine /\ UNCHANGED << agg_vars, call_vars, crawl_vars, pc >>
    \/ MicrofixCompany /\ UNCHANGED << agg_vars, call_vars, crawl_vars, pc >>
    \/ FinishRefine /\ UNCHANGED << agg_vars, call_vars, crawl_vars, pc >>

Spec == Init /\ [][Next]_vars

----------------------------------------------------------------------------
(* properties of the pipeline *)

RECURSIVE NoDuplicates(_)
NoDuplicates(seq) ==
    seq = << >> \/ ((\A k \in 2..Len(seq) : seq[k] # seq[1]) /\ NoDuplicates(Tail(seq)))

\* the words of the persisted word list and of the persisted record list
PersistedWords(d) == _load_words(out_txt[d].content)
PersistedRecordWords(d) ==
    LET items == _load_jsonl(out_jsonl[d].content) IN [k \in 1..Len(items) |-> items[k].word]

ArtifactsConsistent(d) ==
    /\ out_txt[d].exists /\ out_jsonl[d].exists
    /\ PersistedWords(d) = PersistedRecordWords(d)
    /\ NoDuplicates(PersistedWords(d))

\* C1: after every completed run of pass 1 or pass 2 over an Entity, the word
\* list and the words of the record list are the same sequence, without duplicates.
ConsistentAfterRun ==
    \A d \in DIRNAMES : last_run[d] \in {"generate", "refine"} => ArtifactsConsistent(d)

\* C1 witness: a refinement that removed words from generated artifacts and left
\* some, after a generation of the same folder
ConsistentAfterRunWitness ==
    \E d \in DIRNAMES :
        /\ last_run[d] = "refine"
        /\ Len(PersistedWords(d)) >= 2
        /\ out_log[d].content[1].kind = "generate"
        /\ out_log[d].content[1].selected_terms > Len(PersistedWords(d))

\* C10 (the claim as stated): a folder without PDFs gets its note, empty
\* artifacts are persisted for it and no error ends the batch.
NoDocumentsNonFatal ==
    \A d \in DIRNAMES :
        (\E k \in 1..Len(notes[d]) : notes[d][k] = NOTE_NO_PDF) =>
            /\ last_run[d] # "aborted"
            /\ error # "KeyError"
            /\ out_txt[d].exists /\ out_jsonl[d].exists
            /\ PersistedWords(d) = << >>
            /\ PersistedRecordWords(d) = << >>

----------------------------------------------------------------------------
(* pass 2 on arbitrary persisted artifacts *)

\* the lines a persisted word list is made of
FIX_LINES == {
    <<22770, 19978, 39640>>,
    <<21033, 30410>>,
    <<20250, 31038>>,
    <<32, 22770, 19978, 39640>>,
    << >> }

FixMeta == [company |-> <<65, 66>>]

\* the objects a persisted record list is made of: descriptions that are kept
\* and that are noisy, a record without description, a word with
\* surrounding white space, an object without "word"
FIX_ITEMS == {
    [word |-> <<22770, 19978, 39640>>, description |-> <<24403, 31038, 12398, 22770, 19978, 39640, 12399, 21069, 26399, 27604, 12391, 22679, 21152, 12375, 12383, 12290>>, metadata |-> FixMeta],
    [word |-> <<22770, 19978, 39640>>, description |-> <<22770, 19978, 39640, 12290>>, metadata |-> FixMeta],
    [word |-> <<21033, 30410>>, metadata |-> FixMeta],
    [word |-> <<32, 21033, 30410>>, description |-> None, metadata |-> FixMeta],
    [description |-> <<12304, 34920, 32025, 12305, 69, 68, 73, 78, 69, 84, 25552, 20986, 26360, 39006>>, metadata |-> FixMeta] }

MaxWords == 2
MaxItems == 2

SeqsUpTo(S, n) == UNION {[1..k -> S] : k \in 0..n}

\* the Entity folder whose artifacts are refined
FIX_DIR == <<49, 95, 65, 66>>

InitFix ==
    /\ \E lines \in SeqsUpTo(FIX_LINES, MaxWords), items \in SeqsUpTo(FIX_ITEMS, MaxItems) :
        /\ out_txt = [d \in DIRNAMES |->
                         IF d = FIX_DIR THEN File(JoinLines(lines) \o <<10>>) ELSE NoFile]
        /\ out_jsonl = [d \in DIRNAMES |->
                         IF d = FIX_DIR THEN File(_write_jsonl(items)) ELSE NoFile]
    /\ out_log = [d \in DIRNAMES |-> NoFile]
    /\ batch = "idle" /\ queue = << >> /\ next_i = 0 /\ error = "none"
    /\ notes = [d \in DIRNAMES |-> << >>]
    /\ last_run = [d \in DIRNAMES |-> "none"]
    /\ AggIdle /\ CallIdle /\ CrawlIdle /\ pc = "refine"

NextFix ==
    \/ StartRefine /\ UNCHANGED << agg_vars, call_vars, crawl_vars, pc >>
    \/ MicrofixCompany /\ UNCHANGED << agg_vars, call_vars, crawl_vars, pc >>
    \/ FinishRefine /\ UNCHANGED << agg_vars, call_vars, crawl_vars, pc >>

SpecFix == InitFix /\ [][NextFix]_vars

\* C2 (the claim as stated): whatever was persisted, after microfix_company the
\* word list and the words of the record list are the same duplicate-free sequence.
SynchronizationRestoresInvariant ==
    \A d \in DIRNAMES : last_run[d] = "refine" => ArtifactsConsistent(d)

\* C3: a second run of microfix_company in succession changes neither artifact.
SecondRefineChangesNothing ==
    [][\A d \in DIRNAMES :
          FixSections(out_log[d]) >= 1 => out_txt'[d] = out_txt[d] /\ out_jsonl'[d] = out_jsonl[d]]_vars

\* C3 witness: two runs done on artifacts the first run changed: a word was
\* removed and a description dropped
SecondRefineWitness ==
    /\ FixSections(out_log[FIX_DIR]) = 2
    /\ out_log[FIX_DIR].content[4].stats.words_dropped >= 1
    /\ out_log[FIX_DIR].content[4].stats.desc_dropped >= 1
    /\ out_log[FIX_DIR].content[4].stats.jsonl_out >= 1

----------------------------------------------------------------------------
(* process_company_dir, candidate by candidate *)

\* the Entity names: "AB", and a fullwidth "XY" that NFKC folds to "XY"
AGG_COMPANIES == { <<65, 66>>, <<65336, 65337>> }

\* page texts the candidates are found in
AGG_TEXTS == {
    <<24403, 31038, 12398, 22770, 19978, 39640, 12399, 22679, 21152, 12375, 12383, 12290, 21942, 26989, 21033, 30410, 12418, 22679, 21152, 12375, 12383, 12290>>,
    <<88, 89, 12464, 12523, 12540, 12503, 12398, 21033, 30410>> }

\* raw candidates as extract_candidates yields them (joined token surfaces)
RAW_TERMS == {
    <<22770, 19978>>,
    <<21033, 30410>>,
    <<12539, 22770, 19978, 39640>>,
    <<65, 66, 20107, 26989, 37096, 88, 49>>,
    <<88, 89, 12464, 12523, 12540, 12503>>,
    <<65313, 65314>>,
    <<65, 66, 31038>>,
    <<88, 89>>,
    <<24403, 31038>>,
    <<12539, 24403, 31038, 12539>>,
    <<39640>>,
    <<49, 50, 51>>,
    <<49, 44, 50, 51, 52>>,
    <<12414, 12383>>,
    <<50, 48, 50, 48, 24180, 49, 26376, 49, 26085>>,
    <<50, 48, 50, 48, 47, 49, 47, 49>>,
    <<50, 48, 50, 48, 45, 48, 49, 45, 48, 49>>,
    <<31532, 49, 31456>>,
    <<51, 38917>>,
    <<72, 84, 84, 80, 83>>,
    <<65, 66, 26666, 24335, 20250, 31038>>,
    <<37, 37>>,
    Rep(65, MAX_TERM_CHARS),
    Rep(65, MAX_TERM_CHARS + 1) }

\* accepted occurrences counted in one run, and the caps tried
MaxOccurrences == 4
MaxCap == 3

RECURSIVE SumCounts(_, _)
SumCounts(cnt, rest) ==
    IF rest = {} THEN 0
    ELSE LET t == CHOOSE u \in rest : TRUE IN cnt[t] + SumCounts(cnt, rest \ {t})

InitAgg ==
    /\ company \in AGG_COMPANIES
    /\ cap \in 1..MaxCap
    /\ counter = << >> /\ first_context = << >> /\ result = NoResult
    /\ seen_pages = << >>
    /\ pc = "scan"
    /\ PipelineIdle /\ CallIdle /\ CrawlIdle

\* lines 411-420 for one raw candidate of one page
Candidate ==
    /\ pc = "scan"
    /\ SumCounts(counter, DOMAIN counter) < MaxOccurrences
    /\ \E raw_term \in RAW_TERMS, page_text \in AGG_TEXTS :
        LET agg == AcceptCandidate([counter |-> counter, first_context |-> first_context],
                                   raw_term, page_text, company)
        IN  /\ counter' = agg.counter
            /\ first_context' = agg.first_context
    /\ UNCHANGED << company, cap, result, seen_pages, pc >>

\* lines 422-463, with cap for MAX_TERMS_PER_COMPANY; counter keeps the map the
\* loop built (the narrowed map is local to the function)
Finalize ==
    /\ pc = "scan"
    /\ result' = BuildResult(company, [counter |-> counter, first_context |-> first_context],
                             cap, << >>)
    /\ pc' = "done"
    /\ UNCHANGED << company, cap, counter, first_context, seen_pages >>

NextAgg ==
    \/ Candidate /\ UNCHANGED << pipeline_vars, call_vars, crawl_vars >>
    \/ Finalize /\ UNCHANGED << pipeline_vars, call_vars, crawl_vars >>

SpecAgg == InitAgg /\ [][NextAgg]_vars

\* C4: the Term Set is ordered by descending count and, among equal counts, by
\* ascending code-point order of the word.
TermSetOrdered ==
    pc = "done" =>
        \A k \in 1..(Len(result.terms) - 1) :
            LET a == result.terms[k]
                b == result.terms[k + 1]
            IN  \/ counter[a] > counter[b]
                \/ counter[a] = counter[b] /\ LexLess(a, b)

\* C4 witness: a Term Set with a step down in count and a tie broken by the word
TermSetOrderedWitness ==
    /\ pc = "done"
    /\ \E k \in 1..(Len(result.terms) - 1) :
           counter[result.terms[k]] > counter[result.terms[k + 1]]
    /\ \E k \in 1..(Len(result.terms) - 1) :
           counter[result.terms[k]] = counter[result.terms[k + 1]]

\* the rank of t under (count descending, word ascending), from 1
Rank(t) == 1 + Cardinality({u \in DOMAIN counter :
                               counter[u] > counter[t]
                               \/ (counter[u] = counter[t] /\ LexLess(u, t))})

TermSetOf == {result.terms[k] : k \in 1..Len(result.terms)}

\* C5: never more than cap terms; all candidates when there are at most cap;
\* exactly those counted twice or more when there are more than cap and the
\* cap-th rank was counted once; else exactly the cap best ranked.
TruncationPolicy ==
    pc = "done" =>
        /\ Len(result.terms) <= cap
        /\ Cardinality(TermSetOf) = Len(result.terms)
        /\ IF Cardinality(DOMAIN counter) <= cap
           THEN TermSetOf = DOMAIN counter
           ELSE IF \E t \in DOMAIN counter : Rank(t) = cap /\ counter[t] <= 1
                THEN TermSetOf = {t \in DOMAIN counter : counter[t] >= 2}
                ELSE TermSetOf = {t \in DOMAIN counter : Rank(t) <= cap}

\* C5 witness: more candidates than cap, the cap-th counted once, and a term
\* counted twice that is kept
TruncationPolicyWitness ==
    /\ pc = "done"
    /\ Cardinality(DOMAIN counter) > cap
    /\ \E k \in 1..Len(result.notes) : result.notes[k] = NOTE_NARROWED
    /\ result.terms # << >>
    /\ Len(result.terms) < cap

\* C6: every term in the frequency map passes the rules of the candidate filter.
AcceptedTermsClean ==
    \A t \in DOMAIN counter :
        /\ Len(t) >= 2 /\ Len(t) <= 40
        /\ t \notin STOPWORDS
        /\ ~AllDigits(t)
        /\ ~RE_ONLY_NUM_PUNCT(t)
        /\ ~RE_ONLY_HIRAGANA(t)
        /\ ~RE_DATE_LIKE(t)
        /\ ~RE_SECTION_LIKE(t)
        /\ t # _nfkc(company)
        /\ ~(In(_nfkc(company), t) /\ Len(t) - Len(_nfkc(company)) <= 4)

\* C6 witness: accepted terms of the longest length, one that holds the Entity
\* name and is more than 4 longer, and one cleared of a connector
AcceptedTermsCleanWitness ==
    /\ \E t \in DOMAIN counter : Len(t) = 40
    /\ \E t \in DOMAIN counter : In(_nfkc(company), t)
    /\ <<22770, 19978, 39640>> \in DOMAIN counter

----------------------------------------------------------------------------
(* _extract_context on page texts *)

CONTEXT_TERM == <<22770, 19978, 39640>>

\* a page text around one occurrence of CONTEXT_TERM: a characters, s1, b
\* characters, ws, the term, c characters, s2, d characters
PageText(a, s1, b, ws, c, s2, d) ==
    Rep(12354, a) \o s1 \o Rep(12356, b) \o ws \o CONTEXT_TERM
    \o Rep(12358, c) \o s2 \o Rep(12360, d)

CONTEXT_TEXTS ==
    {PageText(a, s1, b, ws, c, s2, d) :
        a \in {0, 3, 90}, s1 \in {<< >>, <<FULL_STOP>>}, b \in {0, 2, 60, 100},
        ws \in {<< >>, <<32, 10>>},
        c \in {0, 2, 100, 150}, s2 \in {<< >>, <<FULL_STOP>>}, d \in {0, 4, 30}}

\* the term of the page texts, and one that occurs in none
CONTEXT_TERMS == { CONTEXT_TERM, <<21033, 30410>> }

InitContext ==
    /\ text \in CONTEXT_TEXTS
    /\ term \in CONTEXT_TERMS
    /\ ctx = None /\ concept = "None"
    /\ tokens = << >> /\ candidates = << >> /\ verdict = << >>
    /\ pc = "call"
    /\ PipelineIdle /\ AggIdle /\ CrawlIdle

ExtractContext ==
    /\ pc = "call"
    /\ ctx' = _extract_context(text, term)
    /\ pc' = "returned"
    /\ UNCHANGED << text, term, concept, tokens, candidates, verdict >>

NextContext == ExtractContext /\ UNCHANGED << pipeline_vars, agg_vars, crawl_vars >>

SpecContext == InitContext /\ [][NextContext]_vars

\* C7 (the claim as stated): the context starts right after the nearest "。"
\* before the match and keeps no text after the nearest "。" that follows it.
ContextTrimmedToSentence ==
    (pc = "returned" /\ ctx # None) =>
        LET window == ContextWindow(text, term)
            pos == find(window, term, 0)
            before == rfind(window, <<FULL_STOP>>, 0, pos)
            after == find(window, <<FULL_STOP>>, pos + Len(term))
            p == find(ctx, term, 0)
            q == find(ctx, <<FULL_STOP>>, p + Len(term))
        IN  /\ p >= 0
            /\ before # -1 =>
                   SubSeq(ctx, 1, p) = LStrip(Slice(window, before + 1, pos), WHITESPACE)
            /\ after # -1 => (q = -1 \/ q = Len(ctx) - 1)

\* C8 (the claim as stated): a returned context has 6 to 160 characters.
ContextAtMost160 ==
    (pc = "returned" /\ ctx # None) => (Len(ctx) >= 6 /\ Len(ctx) <= 160)

\* C8 as amended: a returned context has 6 to 161 characters; it has 161 only
\* as 160 characters of a longer trimmed window and the ellipsis marker.
ContextAtMost161 ==
    (pc = "returned" /\ ctx # None) =>
        /\ Len(ctx) >= 6 /\ Len(ctx) <= 161
        /\ Len(ctx) = 161 =>
               /\ ctx[161] = ELLIPSIS
               /\ Len(strip(TrimToSentence(ContextWindow(text, term), term))) > 160

\* C8 witness: a returned context of 161 characters, the last one the ellipsis
\* marker
ContextAtMost161Witness ==
    pc = "returned" /\ ctx # None /\ Len(ctx) = 161 /\ ctx[161] = ELLIPSIS

----------------------------------------------------------------------------
(* _concept_type on terms *)

\* terms are made of up to MaxChunks of these pieces
CONCEPT_CHUNKS == {
    <<21033, 30410>>,
    <<39640>>,
    <<28187, 25613>>,
    <<12471, 12473, 12486, 12512>>,
    <<20307, 21046>>,
    <<22996, 21729, 20250>>,
    <<37096>>,
    <<20107, 26989>>,
    <<88>> }

MaxChunks == 3

CONCEPT_TERMS == {Concat(cs) : cs \in SeqsUpTo(CONCEPT_CHUNKS, MaxChunks)}

InitConcept ==
    /\ term \in CONCEPT_TERMS
    /\ text = << >> /\ ctx = None /\ concept = "None"
    /\ tokens = << >> /\ candidates = << >> /\ verdict = << >>
    /\ pc = "call"
    /\ PipelineIdle /\ AggIdle /\ CrawlIdle

Classify ==
    /\ pc = "call"
    /\ concept' = _concept_type(term)
    /\ pc' = "returned"
    /\ UNCHANGED << text, term, ctx, tokens, candidates, verdict >>

NextConcept == Classify /\ UNCHANGED << pipeline_vars, agg_vars, crawl_vars >>

SpecConcept == InitConcept /\ [][NextConcept]_vars

\* C9: the concept type is the first of Metric, Event, Structure, Entity that
\* has a marker inside the term, and Other exactly when none has.
ConceptFirstMatchWins ==
    pc = "returned" =>
        LET markers == << metric_markers, event_markers, structure_markers, entity_markers >>
            types == << "Metric", "Event", "Structure", "Entity" >>
            hits == {k \in 1..4 : \E m \in 1..Len(markers[k]) : In(markers[k][m], term)}
        IN  /\ (hits = {}) <=> (concept = "Other")
            /\ hits # {} => concept = types[Min(hits)]
            /\ (1 \in hits /\ 3 \in hits) => concept = "Metric"

\* C9 witness: a term with a Metric and a Structure marker, classified
ConceptFirstMatchWinsWitness ==
    /\ pc = "returned"
    /\ In(<<21033, 30410>>, term) /\ In(<<12471, 12473, 12486, 12512>>, term)
    /\ concept = "Metric"

----------------------------------------------------------------------------
(* pass 2 on the folders of output/, with files that may be missing *)

\* word lists, record lists and worklogs found in a folder of output/
BATCH_TXT == {
    NoFile,
    File(_write_words(<< <<22770, 19978, 39640>>, <<20250, 31038>> >>)),
    File(_write_words(<< <<21033, 30410>> >>)) }

BATCH_JSONL == {
    NoFile,
    File(_write_jsonl(<< >>)),
    File(_write_jsonl(<< [word |-> <<22770, 19978, 39640>>, description |-> <<22770, 19978, 39640, 12290>>, metadata |-> FixMeta] >>)) }

\* a block of text somebody wrote into a worklog
LogText == [kind |-> "text"]

\* no worklog, an empty one, and worklogs that end with the text, with one
\* line break, with an empty line, with two empty lines, with a space
BATCH_LOGS == {
    NoFile,
    File(<< >>),
    File(<< LogText >>),
    File(<< LogText, LogChar(10) >>),
    File(<< LogText >> \o LOG_END),
    File(<< LogText >> \o LOG_END \o << LogChar(10) >>),
    File(<< LogText, LogChar(32) >>) }

InitBatch ==
    /\ out_txt \in [DIRNAMES -> BATCH_TXT]
    /\ out_jsonl \in [DIRNAMES -> BATCH_JSONL]
    /\ out_log \in [DIRNAMES -> BATCH_LOGS]
    /\ batch = "idle" /\ queue = << >> /\ next_i = 0 /\ error = "none"
    /\ notes = [d \in DIRNAMES |-> << >>]
    /\ last_run = [d \in DIRNAMES |-> "none"]
    /\ AggIdle /\ CallIdle /\ CrawlIdle /\ pc = "refine"

SpecBatch == InitBatch /\ [][NextFix]_vars

MissingArtifact(d) == ~out_txt[d].exists \/ ~out_jsonl[d].exists

\* C11: a missing word list or record list of the Entity whose turn it is ends
\* the batch with FileNotFoundError and leaves its files and worklog as they
\* are; after that error no Entity later in the queue has been refined, and
\* the Entities before it have their rewritten artifacts and their section.
MissingArtifactAborts ==
    /\ [](error = "FileNotFoundError" =>
            /\ batch = "idle"
            /\ next_i \in 1..Len(queue)
            /\ MissingArtifact(queue[next_i])
            /\ \A k \in next_i..Len(queue) :
                   last_run[queue[k]] = "none" /\ FixSections(out_log[queue[k]]) = 0
            /\ \A k \in 1..(next_i - 1) :
                   /\ last_run[queue[k]] = "refine"
                   /\ FixSections(out_log[queue[k]]) >= 1
                   /\ ~MissingArtifact(queue[k])
                   /\ \A i \in 1..Len(PersistedWords(queue[k])) :
                          ~_is_noisy_word(PersistedWords(queue[k])[i],
                                          _company_name_from_dirname(queue[k])))
    /\ [][(batch = "refine" /\ next_i <= Len(queue) /\ MissingArtifact(queue[next_i])) =>
            /\ error' = "FileNotFoundError"
            /\ batch' = "idle"
            /\ out_txt' = out_txt /\ out_jsonl' = out_jsonl /\ out_log' = out_log]_vars

\* C11 witness: the batch ended at the first Entity, whose record list is
\* missing; the second Entity has both files and was not refined
MissingArtifactAbortsWitness ==
    /\ error = "FileNotFoundError"
    /\ Len(queue) = 2 /\ next_i = 1
    /\ out_txt[queue[1]].exists /\ ~out_jsonl[queue[1]].exists
    /\ ~MissingArtifact(queue[2])
    /\ last_run[queue[2]] = "none"

IsPrefix(a, b) == Len(a) <= Len(b) /\ SubSeq(b, 1, Len(a)) = a

\* the blocks of a worklog, without the single characters
LogBlocks(content) == SelectSeq(content, LAMBDA it : it.kind # "char")

\* what a step wrote after the first n items of the worklog of d
LogAdded(new, n) == SubSeq(new, n + 1, Len(new))

\* C12 (the claim as stated): a run keeps the whole worklog that was there at
\* the start of the new one and adds one refinement section after it.
WorklogAppendOnly ==
    [][\A d \in DIRNAMES :
          out_log'[d] # out_log[d] =>
              LET old == IF out_log[d].exists THEN out_log[d].content ELSE << >>
                  new == out_log'[d].content
                  added == LogBlocks(LogAdded(new, Len(old)))
              IN  /\ IsPrefix(old, new)
                  /\ Len(added) >= 1
                  /\ added[Len(added)].kind = "microfix"
                  /\ FixSections(out_log'[d]) = FixSections(out_log[d]) + 1]_vars

\* C12 as amended: a run keeps the worklog that was there up to its trailing
\* white space, and whole when it ended with its text, one line break or one
\* empty line; after it come an empty line and one refinement section (after
\* a title when there was no worklog), and the worklog written ends with one
\* empty line.
WorklogAppendOnlyStripped ==
    [][\A d \in DIRNAMES :
          out_log'[d] # out_log[d] =>
              LET old == IF out_log[d].exists THEN out_log[d].content ELSE << >>
                  kept == RStripLog(old)
                  new == out_log'[d].content
                  added == LogBlocks(LogAdded(new, Len(kept)))
              IN  /\ out_log'[d].exists
                  /\ IsPrefix(kept, new)
                  /\ IsPrefix(LogAdded(old, Len(kept)), LOG_END) => IsPrefix(old, new)
                  /\ Len(added) = (IF out_log[d].exists THEN 1 ELSE 2)
                  /\ added[Len(added)].kind = "microfix"
                  /\ ~out_log[d].exists => added[1].kind = "title"
                  /\ FixSections(out_log'[d]) = FixSections(out_log[d]) + 1
                  /\ new = RStripLog(new) \o LOG_END]_vars

\* C12 witness: two runs on a worklog that began with a block of text
WorklogAppendOnlyWitness ==
    \E d \in DIRNAMES :
        /\ FixSections(out_log[d]) = 2
        /\ LogBlocks(out_log[d].content)[1] = LogText
        /\ Len(LogBlocks(out_log[d].content)) = 3

----------------------------------------------------------------------------
(* extract_candidates on token streams *)

\* tokens of the tokenizer: nouns, an alphanumeric surface, a connector, a
\* noun of 21 characters, and a particle and a suffix that end a run
PHRASE_TOKENS == {
    Noun(<<22770, 19978>>),
    Noun(<<21033, 30410>>),
    Symbol(<<75, 80, 73>>),
    Symbol(<<12539>>),
    Noun(Rep(12450, 21)),
    Particle(<<12398>>),
    Suffix(<<39640>>) }

MaxTokens == 3

InitPhrase ==
    /\ tokens \in SeqsUpTo(PHRASE_TOKENS, MaxTokens)
    /\ candidates = << >> /\ verdict = << >>
    /\ text = << >> /\ term = << >> /\ ctx = None /\ concept = "None"
    /\ pc = "call"
    /\ PipelineIdle /\ AggIdle /\ CrawlIdle

ExtractCandidates ==
    /\ pc = "call"
    /\ candidates' = extract_candidates(tokens)
    /\ pc' = "returned"
    /\ UNCHANGED << text, term, ctx, concept, tokens, verdict >>

NextPhrase == ExtractCandidates /\ UNCHANGED << pipeline_vars, agg_vars, crawl_vars >>

SpecPhrase == InitPhrase /\ [][NextPhrase]_vars

\* tokens i..j lie in one run: none of them ends a run
InOneRun(i, j) == \A k \in i..j : KindOf(tokens[k]) # "none"

\* the surfaces of tokens i..j joined and cleared of connectors at both ends
WindowText(i, j) ==
    StripChars(strip(Concat([k \in 1..(j - i + 1) |-> tokens[i + k - 1].surface])), CONNECTORS)

WindowNouns(i, j) == Cardinality({k \in i..j : KindOf(tokens[k]) = "noun"})

\* C13 (the claim as stated): every window of 1 to 6 tokens of a run with two
\* or more noun-kind tokens and a text of at most 40 characters is a candidate.
EveryWindowEmitted ==
    pc = "returned" =>
        \A i \in 1..Len(tokens) : \A j \in i..Min({Len(tokens), i + 5}) :
            (InOneRun(i, j) /\ WindowNouns(i, j) >= 2 /\ Len(WindowText(i, j)) <= 40) =>
                \E k \in 1..Len(candidates) : candidates[k] = WindowText(i, j)

----------------------------------------------------------------------------
(* process_company_dir candidate by candidate, with the pages remembered *)

\* a page of three characters, and two pages with sentences
FIRST_TEXTS == {
    <<22770, 19978, 39640>>,
    <<24403, 31038, 12398, 22770, 19978, 39640, 12399, 22679, 21152, 12375, 12383, 12290, 21942, 26989, 21033, 30410, 12418, 22679, 21152, 12375, 12383, 12290>>,
    <<21942, 26989, 21033, 30410, 12392, 22770, 19978, 39640, 12398, 25512, 31227>> }

\* two terms of the pages, and a candidate the filter rejects
FIRST_TERMS == {
    <<22770, 19978, 39640>>,
    <<21942, 26989, 21033, 30410>>,
    <<12398>> }

MaxSeen == 4

InitFirst ==
    /\ company \in AGG_COMPANIES
    /\ cap = MAX_TERMS_PER_COMPANY
    /\ counter = << >> /\ first_context = << >> /\ result = NoResult
    /\ seen_pages = << >>
    /\ pc = "scan"
    /\ PipelineIdle /\ CallIdle /\ CrawlIdle

\* lines 411-420 for one raw candidate of one page; seen_pages remembers the
\* page of every accepted occurrence
CandidateOnPage ==
    /\ pc = "scan"
    /\ SumCounts(counter, DOMAIN counter) < MaxSeen
    /\ \E raw_term \in FIRST_TERMS, page_text \in FIRST_TEXTS :
        LET agg == AcceptCandidate([counter |-> counter, first_context |-> first_context],
                                   raw_term, page_text, company)
            t == NormalizeTerm(raw_term)
        IN  /\ counter' = agg.counter
            /\ first_context' = agg.first_context
            /\ seen_pages' =
                   IF agg.counter = counter THEN seen_pages
                   ELSE IF t \in DOMAIN seen_pages
                        THEN [seen_pages EXCEPT ![t] = Append(@, page_text)]
                   ELSE seen_pages @@ (t :> <<page_text>>)
    /\ UNCHANGED << company, cap, result, pc >>

NextFirst == CandidateOnPage /\ UNCHANGED << pipeline_vars, call_vars, crawl_vars >>

SpecFirst == InitFirst /\ [][NextFirst]_vars

\* the page of the k-th accepted occurrence of t gives a context
HasContext(t, k) ==
    _extract_context(seen_pages[t][k], t) # None /\ _extract_context(seen_pages[t][k], t) # << >>

\* C14 (the claim as stated): the stored context of a term is the context of
\* the page of its first accepted occurrence, and a term whose first accepted
\* occurrence gave no context has none.
ContextOfFirstOccurrence ==
    \A t \in DOMAIN counter :
        IF HasContext(t, 1)
        THEN t \in DOMAIN first_context
             /\ first_context[t] = _extract_context(seen_pages[t][1], t)
        ELSE t \notin DOMAIN first_context

\* C14 as amended: the stored context of a term is the context of the page of
\* its first accepted occurrence that gives a context; a term has none
\* exactly when no accepted occurrence gave one; a stored context is never
\* replaced or removed.
ContextOfFirstOccurrenceWithContext ==
    /\ [](\A t \in DOMAIN counter :
            LET with == {k \in 1..Len(seen_pages[t]) : HasContext(t, k)}
            IN  /\ Len(seen_pages[t]) = counter[t]
                /\ (with = {}) <=> (t \notin DOMAIN first_context)
                /\ with # {} =>
                       first_context[t] = _extract_context(seen_pages[t][Min(with)], t))
    /\ [][\A t \in DOMAIN first_context :
            t \in DOMAIN first_context' /\ first_context'[t] = first_context[t]]_vars

\* C14 witness: the first accepted occurrence of a term gave no context, a
\* later one on another page did, and an occurrence after that gives another
ContextOfFirstOccurrenceWitness ==
    \E t \in DOMAIN first_context :
        /\ ~HasContext(t, 1)
        /\ \E k \in 2..Len(seen_pages[t]) :
               /\ HasContext(t, k)
               /\ first_context[t] = _extract_context(seen_pages[t][k], t)
               /\ \E j \in (k + 1)..Len(seen_pages[t]) :
                      /\ HasContext(t, j)
                      /\ _extract_context(seen_pages[t][j], t) # first_context[t]

----------------------------------------------------------------------------
(* what a run of pass 2 does to the two artifacts *)

\* a is b with some of its members left out
RECURSIVE IsSubseq(_, _)
IsSubseq(a, b) ==
    IF a = << >> THEN TRUE
    ELSE IF b = << >> THEN FALSE
    ELSE IF Head(a) = Head(b) THEN IsSubseq(Tail(a), Tail(b))
    ELSE IsSubseq(a, Tail(b))

\* the positions of the records of items whose "word" is w
Carrying(items, w) == {k \in 1..Len(items) : "word" \in DOMAIN items[k] /\ items[k].word = w}

\* the description of the record is a string that is judged noisy
JudgedNoisy(item) ==
    /\ "description" \in DOMAIN item
    /\ item.description # None
    /\ _is_noisy_description(item.description)

\* C15: a run of pass 2 writes a word list that is the list read with some
\* words left out; every record written is the first record read with that
\* word, without its description when that was judged noisy and unchanged
\* otherwise; a kept word that had a record with that word still has one.
RefinementOnlyRemoves ==
    [][\A d \in DIRNAMES :
          (out_log'[d] # out_log[d] /\ last_run'[d] = "refine") =>
              LET words_in == _load_words(out_txt[d].content)
                  words_out == _load_words(out_txt'[d].content)
                  items_in == _load_jsonl(out_jsonl[d].content)
                  items_out == _load_jsonl(out_jsonl'[d].content)
              IN  /\ IsSubseq(words_out, words_in)
                  /\ \A k \in 1..Len(items_out) :
                         LET src == items_in[Min(Carrying(items_in, items_out[k].word))]
                         IN  /\ Carrying(items_in, items_out[k].word) # {}
                             /\ IF JudgedNoisy(src)
                                THEN items_out[k] = [f \in DOMAIN src \ {"description"} |-> src[f]]
                                ELSE items_out[k] = src
                  /\ \A i \in 1..Len(words_out) :
                         Carrying(items_in, words_out[i]) # {} =>
                             Carrying(items_out, words_out[i]) # {}]_vars

\* C15 witness: one run that wrote two records, one as it was read and one
\* without the description it had
RefinementOnlyRemovesWitness ==
    /\ FixSections(out_log[FIX_DIR]) = 1
    /\ out_log[FIX_DIR].content[4].stats.jsonl_out = 2
    /\ out_log[FIX_DIR].content[4].stats.desc_dropped = 1
    /\ \A k \in 1..2 : "description" \notin DOMAIN _load_jsonl(out_jsonl[FIX_DIR].content)[k]

----------------------------------------------------------------------------
(* the word filters of the two passes on the same word *)

\* words as either pass can meet them in a candidate or in wordList.txt
FILTER_WORDS == {
    << >>,
    <<22770>>,
    <<12371, 12428>>,
    <<104, 116, 116, 112>>,
    <<26666, 24335, 20250, 31038, 65, 66>>,
    <<65, 66, 20107, 26989>>,
    <<65, 66>>,
    <<88, 89>>,
    <<65336, 65337>>,
    <<37325, 35201>>,
    <<24403, 31038>>,
    <<20250, 31038>>,
    <<22770, 19978, 39640>>,
    <<32, 22770, 19978, 39640>>,
    <<21942, 26989, 21033, 30410>>,
    <<69, 49, 50, 51, 52, 53>>,
    <<12304, 34920, 12305>>,
    <<49, 50, 51>>,
    <<31532, 49, 31456>>,
    <<51, 26376>>,
    <<50, 48, 50, 52, 24180, 51, 26376, 51, 49, 26085>>,
    <<49, 47, 50>>,
    <<40, 49, 41>>,
    <<21033, 30410, 40, 20870>>,
    <<12539, 12539>>,
    Rep(88, MAX_TERM_CHARS + 1) }

\* Entity names: none, ASCII, fullwidth, one that is a word of the list
FILTER_COMPANIES == { << >>, <<65, 66>>, <<65336, 65337>>, <<22770, 19978, 39640>> }

InitFilter ==
    /\ term \in FILTER_WORDS
    /\ company \in FILTER_COMPANIES
    /\ verdict = << >>
    /\ text = << >> /\ ctx = None /\ concept = "None"
    /\ tokens = << >> /\ candidates = << >>
    /\ pc = "call"
    /\ PipelineIdle /\ CrawlIdle
    /\ cap = MAX_TERMS_PER_COMPANY /\ counter = << >> /\ first_context = << >>
    /\ result = NoResult /\ seen_pages = << >>

\* the verdicts with that of one more filter
Judged(name, rejected) ==
    [n \in DOMAIN verdict \cup {name} |-> IF n = name THEN rejected ELSE verdict[n]]

\* process_company_dir, line 414: the pass-1 filter on the word
LooksBad ==
    /\ pc = "call"
    /\ "_looks_bad" \notin DOMAIN verdict
    /\ verdict' = Judged("_looks_bad", _looks_bad(term, company))
    /\ UNCHANGED << pipeline_vars, agg_vars, crawl_vars, text, term, ctx, concept, tokens, candidates, pc >>

\* microfix_company, line 212: the pass-2 filter on the word
IsNoisyWord ==
    /\ pc = "call"
    /\ "_is_noisy_word" \notin DOMAIN verdict
    /\ verdict' = Judged("_is_noisy_word", _is_noisy_word(term, company))
    /\ UNCHANGED << pipeline_vars, agg_vars, crawl_vars, text, term, ctx, concept, tokens, candidates, pc >>

NextFilter == LooksBad \/ IsNoisyWord

SpecFilter == InitFilter /\ [][NextFilter]_vars

\* C16 (the claim as stated): a word the pass-1 filter rejects is rejected by
\* the pass-2 filter too, for every word and Entity name.
PassTwoRejectsWhatPassOneRejects ==
    (DOMAIN verdict = {"_looks_bad", "_is_noisy_word"} /\ verdict["_looks_bad"])
        => verdict["_is_noisy_word"]

----------------------------------------------------------------------------
(* globis_glossary_by_category.py: the crawl of the glossary by category *)

\* lines 31-41: the category_id of the categories, in the order main takes them
CATEGORIES == << 32, 21, 20, 15, 16, 31, 18, 19, 17 >>

\* the categories main goes through, and the values of --max-pages tried
MaxCategories == 2
MaxPages == 3

\* lines 44-52: out holds the items seen so far, in the order met
RECURSIVE UniqKeepOrder(_, _)
UniqKeepOrder(items, out) ==
    IF items = << >> THEN out
    ELSE UniqKeepOrder(Tail(items),
                       IF \E k \in 1..Len(out) : out[k] = items[1] THEN out
                       ELSE Append(out, items[1]))

_uniq_keep_order(items) == UniqKeepOrder(items, << >>)

\* lines 55-57: the SHA-256 digest of the payload, as the payload it is
\* computed from (two payloads that differ have digests that differ)
_page_fingerprint(terms, hrefs) == JoinLines(hrefs \o << <<45, 45, 45>> >> \o terms)

\* lines 98-120: the terms and the hrefs of the result links of a page
Page(terms, hrefs) == [kind |-> "page", terms |-> terms, hrefs |-> hrefs]

\* lines 139-144: _fetch_page raised
RequestException == [kind |-> "error"]

\* pages of search results: without result links, with two terms, with a
\* term of the other page and a new one
PAGES == {
    Page(<< >>, << >>),
    Page(<< <<82, 79, 69>>, <<82, 79, 65>> >>, << <<100, 101, 116, 97, 105, 108, 45, 49, 46, 104, 116, 109, 108>>, <<100, 101, 116, 97, 105, 108, 45, 50, 46, 104, 116, 109, 108>> >>),
    Page(<< <<78, 80, 86>>, <<82, 79, 69>> >>, << <<100, 101, 116, 97, 105, 108, 45, 51, 46, 104, 116, 109, 108>>, <<100, 101, 116, 97, 105, 108, 45, 49, 46, 104, 116, 109, 108>> >>) }

\* main, lines 221-226, and _crawl_category, lines 156-159
InitCrawl ==
    /\ max_pages \in 0..MaxPages
    /\ category_i = 1 /\ all_terms = << >> /\ uniq_all = << >>
    /\ page = 0 /\ prev_fp = None /\ category_terms = << >>
    /\ fetched = [c \in 1..MaxCategories |-> << >>]
    /\ pc = "crawl"
    /\ PipelineIdle /\ AggIdle /\ CallIdle

\* line 160: the loop of _crawl_category is about to fetch a page
InLoop == pc = "crawl" /\ category_i <= MaxCategories /\ page < max_pages

\* line 167: what _fetch_page gave is remembered
Fetched(r) == fetched' = [fetched EXCEPT ![category_i] = Append(@, r)]

\* lines 235 and 223, then lines 156-159: main takes the terms of the category
\* and calls _crawl_category for the next one
NextCategory(terms) ==
    /\ all_terms' = all_terms \o terms
    /\ category_i' = category_i + 1
    /\ page' = 0 /\ prev_fp' = None /\ category_terms' = << >>

\* a failed fetch that leaves main the terms of the pages fetched before it
FetchFailsKeepsTerms ==
    /\ InLoop
    /\ Fetched(RequestException)
    /\ NextCategory(_uniq_keep_order(category_terms))
    /\ UNCHANGED << max_pages, uniq_all, pc >>

\* lines 167, 141-144 and 236-238: _fetch_page raises, main logs and goes on
FetchFails ==
    /\ InLoop
    /\ Fetched(RequestException)
    /\ NextCategory(<< >>)
    /\ UNCHANGED << max_pages, uniq_all, pc >>

\* lines 173-175 and 191: a page without terms ends the category
FetchEmpty ==
    /\ InLoop
    /\ \E r \in PAGES :
        /\ r.terms = << >>
        /\ Fetched(r)
    /\ NextCategory(_uniq_keep_order(category_terms))
    /\ UNCHANGED << max_pages, uniq_all, pc >>

\* lines 177-180 and 191: the page of before once more ends the category
FetchDuplicate ==
    /\ InLoop
    /\ \E r \in PAGES :
        /\ r.terms # << >>
        /\ prev_fp # None /\ _page_fingerprint(r.terms, r.hrefs) = prev_fp
        /\ Fetched(r)
    /\ NextCategory(_uniq_keep_order(category_terms))
    /\ UNCHANGED << max_pages, uniq_all, pc >>

\* lines 181-184: the terms of the page are taken
FetchNew ==
    /\ InLoop
    /\ \E r \in PAGES :
        /\ r.terms # << >>
        /\ ~(prev_fp # None /\ _page_fingerprint(r.terms, r.hrefs) = prev_fp)
        /\ Fetched(r)
        /\ prev_fp' = _page_fingerprint(r.terms, r.hrefs)
        /\ category_terms' = category_terms \o r.terms
    /\ page' = page + 1
    /\ UNCHANGED << max_pages, category_i, all_terms, uniq_all, pc >>

\* lines 160 and 188-191: page has reached max_pages
StopMaxPages ==
    /\ pc = "crawl" /\ category_i <= MaxCategories /\ page >= max_pages
    /\ NextCategory(_uniq_keep_order(category_terms))
    /\ UNCHANGED << max_pages, uniq_all, fetched, pc >>

\* lines 240-246: after the last category
WriteOutput ==
    /\ pc = "crawl" /\ category_i > MaxCategories
    /\ uniq_all' = _uniq_keep_order(all_terms)
    /\ pc' = "done"
    /\ UNCHANGED << max_pages, category_i, page, prev_fp, category_terms, all_terms, fetched >>

NextCrawl ==
    \/ FetchFails /\ UNCHANGED << pipeline_vars, agg_vars, call_vars >>
    \/ FetchEmpty /\ UNCHANGED << pipeline_vars, agg_vars, call_vars >>
    \/ FetchDuplicate /\ UNCHANGED << pipeline_vars, agg_vars, call_vars >>
    \/ FetchNew /\ UNCHANGED << pipeline_vars, agg_vars, call_vars >>
    \/ StopMaxPages /\ UNCHANGED << pipeline_vars, agg_vars, call_vars >>
    \/ WriteOutput /\ UNCHANGED << pipeline_vars, agg_vars, call_vars >>

\* every step of main returns or raises: the crawl is not held up for ever
SpecCrawl == InitCrawl /\ [][NextCrawl]_vars /\ WF_vars(NextCrawl)

\* the k-th fetch of category c is one the loop stops at
Stops(c, k) ==
    LET r == fetched[c][k]
    IN  \/ r.kind = "error"
        \/ r.kind = "page" /\ r.terms = << >>
        \/ k > 1 /\ r = fetched[c][k - 1]

Failed(c) == \E k \in 1..Len(fetched[c]) : fetched[c][k].kind = "error"

\* the terms of the pages of category c the loop did not stop at, page by page
RECURSIVE PageTerms(_, _)
PageTerms(c, k) ==
    IF k > Len(fetched[c]) THEN << >>
    ELSE (IF Stops(c, k) THEN << >> ELSE fetched[c][k].terms) \o PageTerms(c, k + 1)

\* the terms collected in categories c.. that main is through with
RECURSIVE Collected(_)
Collected(c) ==
    IF c >= category_i \/ c > MaxCategories THEN << >>
    ELSE (IF Failed(c) THEN << >> ELSE PageTerms(c, 1)) \o Collected(c + 1)

FirstIndex(seq, x) == Min({k \in 1..Len(seq) : seq[k] = x})

\* C17: a category is fetched at most max_pages times and never beyond a
\* failed fetch, a page without terms or the page of before once more; main is
\* through with a category only after such a fetch or after max_pages fetches;
\* a failed category leaves no term and the categories after it are crawled;
\* the output holds every collected term once, in the order first seen; and
\* the crawl comes to its end.
CrawlTerminatesAndIsolatesFailures ==
    /\ [](\A c \in 1..MaxCategories :
            /\ Len(fetched[c]) <= max_pages
            /\ \A k \in 1..(Len(fetched[c]) - 1) : ~Stops(c, k)
            /\ c < category_i =>
                   \/ Len(fetched[c]) = max_pages
                   \/ Len(fetched[c]) > 0 /\ Stops(c, Len(fetched[c]))
            /\ c = category_i => \A k \in 1..Len(fetched[c]) : ~Stops(c, k)
            /\ c > category_i => fetched[c] = << >>)
    /\ []({all_terms[k] : k \in 1..Len(all_terms)}
            = {Collected(1)[k] : k \in 1..Len(Collected(1))})
    /\ [](pc = "done" =>
            /\ category_i = MaxCategories + 1
            /\ NoDuplicates(uniq_all)
            /\ {uniq_all[k] : k \in 1..Len(uniq_all)}
                   = {Collected(1)[k] : k \in 1..Len(Collected(1))}
            /\ \A i, j \in 1..Len(uniq_all) :
                   i < j => FirstIndex(Collected(1), uniq_all[i]) < FirstIndex(Collected(1), uniq_all[j]))
    /\ <>(pc = "done")

\* C17 witness: the first category failed after a page with terms, the second
\* one was fetched max_pages times, a term was met twice in it, and the output
\* is written
CrawlTerminatesAndIsolatesFailuresWitness ==
    /\ pc = "done"
    /\ Len(fetched[1]) >= 2 /\ Failed(1)
    /\ ~Failed(2) /\ Len(fetched[2]) = max_pages /\ ~Stops(2, max_pages)
    /\ uniq_all # << >> /\ Len(uniq_all) < Len(PageTerms(2, 1))

====
